---- MODULE Spec2Model ----
(***************************************************************************)
(* Anichain: the rate limiter, the poster-image cache, the title           *)
(* normalisation and the track/untrack state of anime_backend.py and       *)
(* anime_gui.py.  Strings are sequences of one-character strings, so that  *)
(* replace/strip/split/join are computed as Python computes them.          *)
(***************************************************************************)
EXTENDS Integers, Sequences, FiniteSets, TLC

(***************************************************************************)
(* Python string primitives                                                *)
(***************************************************************************)
Min(S) == CHOOSE x \in S : \A y \in S : x <= y
Max(S) == CHOOSE x \in S : \A y \in S : x >= y

\* str.isspace() for the characters the model uses
Whitespace == {" ", "\n", "\t"}

\* p occurs in s at position i
MatchAt(s, p, i) ==
    /\ i >= 1
    /\ i + Len(p) - 1 <= Len(s)
    /\ \A k \in 1..Len(p) : s[i + k - 1] = p[k]

\* str.replace(p, ""): left to right, non-overlapping, a single pass
RECURSIVE RemoveFrom(_, _, _)
RemoveFrom(s, p, i) ==
    IF i > Len(s) THEN <<>>
    ELSE IF MatchAt(s, p, i) THEN RemoveFrom(s, p, i + Len(p))
    ELSE <<s[i]>> \o RemoveFrom(s, p, i + 1)

Remove(s, p) == RemoveFrom(s, p, 1)

\* str.strip()
Strip(s) ==
    LET idx == {i \in 1..Len(s) : s[i] \notin Whitespace}
    IN  IF idx = {} THEN <<>> ELSE SubSeq(s, Min(idx), Max(idx))

\* str.rstrip()
RStrip(s) ==
    LET idx == {i \in 1..Len(s) : s[i] \notin Whitespace}
    IN  IF idx = {} THEN <<>> ELSE SubSeq(s, 1, Max(idx))

\* s.split(p)[0]: the text before the first occurrence of p, all of s if none
SplitFirst(s, p) ==
    LET idx == {i \in 1..Len(s) : MatchAt(s, p, i)}
    IN  IF idx = {} THEN s ELSE SubSeq(s, 1, Min(idx) - 1)

\* sub in s
Contains(sub, s) == sub = <<>> \/ \E i \in 1..Len(s) : MatchAt(s, sub, i)

\* the characters of s, as a set
Chars(s) == {s[i] : i \in 1..Len(s)}

(***************************************************************************)
(* Title normalisation                                                     *)
(***************************************************************************)
\* the release-group tag "[SubsPlease]"
Tag == <<"[", "S", "u", "b", "s", "P", "l", "e", "a", "s", "e", "]">>

\* the separator " - "
Dash == <<" ", "-", " ">>

\* str.isalnum() on the characters of the model's alphabet
Alnum ==
    {"A", "B", "C", "D", "E", "F", "G", "H", "I", "J", "K", "L", "M",
     "N", "O", "P", "Q", "R", "S", "T", "U", "V", "W", "X", "Y", "Z",
     "a", "b", "c", "d", "e", "f", "g", "h", "i", "j", "k", "l", "m",
     "n", "o", "p", "q", "r", "s", "t", "u", "v", "w", "x", "y", "z",
     "0", "1", "2", "3", "4", "5", "6", "7", "8", "9"}

\* fetch_anime_image's clean_title
CleanTitle(title) ==
    LET a == Strip(Remove(title, Tag))
        b == Strip(SplitFirst(a, Dash))
    IN  Strip(SplitFirst(b, <<"[">>))

\* the views' series_name / clean_title:
\* title.replace("[SubsPlease]", "").strip().split(" - ")[0]
SeriesName(title) == SplitFirst(Strip(Remove(title, Tag)), Dash)

\* a plausible slip: '.' let through the filter
KeepCharWithDot(c) == c \in Alnum \/ c \in {" ", "-", "_", "."}

\* the filter of get_cached_image_path: c.isalnum() or c in (' ', '-', '_')
KeepChar(c) == c \in Alnum \/ c \in {" ", "-", "_"}

\* "".join(c for c in title if ...)
RECURSIVE Filter(_)
Filter(s) ==
    IF s = <<>> THEN <<>>
    ELSE IF KeepChar(Head(s)) THEN <<Head(s)>> \o Filter(Tail(s))
    ELSE Filter(Tail(s))

\* get_cached_image_path's safe_title
SafeTitle(title) == RStrip(Filter(title))

\* CACHE_DIR joined with the separator, and the extension
CacheDirPrefix == <<"i", "m", "a", "g", "e", "_", "c", "a", "c", "h", "e", "/">>
JpgSuffix == <<".", "j", "p", "g">>

\* os.path.join(CACHE_DIR, f"{safe_title}.jpg")
GetCachedImagePath(title) == CacheDirPrefix \o SafeTitle(title) \o JpgSuffix

\* PLACEHOLDER_IMAGE
PlaceholderImage == <<"p", "l", "a", "c", "e", "h", "o", "l", "d", "e", "r", ".", "j", "p", "g">>

(***************************************************************************)
(* Raw titles: concatenations of at most MaxPieces pieces                  *)
(***************************************************************************)
MaxPieces == 3

Pieces ==
    { Tag, Dash, <<"A">>, <<" ">>, <<"[">>, <<"]">>,
      <<"[", "S", "u", "b", "s">>, <<"P", "l", "e", "a", "s", "e", "]">>,
      <<".", ".">>, <<"/">>, <<"\\">>, <<"_">>, <<"-">>, <<"1">> }

RECURSIVE Flatten(_)
Flatten(ps) == IF ps = <<>> THEN <<>> ELSE Head(ps) \o Flatten(Tail(ps))

Titles == {Flatten(ps) : ps \in UNION {[1..n -> Pieces] : n \in 0..MaxPieces}}

(***************************************************************************)
(* Bounds and program constants                                            *)
(***************************************************************************)
\* JIKAN_RATE_LIMIT, the calls_per_second of the shared limiter
JikanRateLimit == 1
\* MAX_RETRIES
MaxRetries == 3

\* clock ticks per second, and the last tick the clock reaches
TicksPerSecond == 2
MaxTime == 6
\* calls of wait() each thread makes
MaxCalls == 2

\* the threads sharing the limiter (0 is no thread)
Threads == {1, 2}

\* 1.0 / self.calls_per_second, in ticks
Interval == TicksPerSecond \div JikanRateLimit

\* bytes of a downloaded poster image
ImageSize == 2

\* the ImageLoader threads, each running fetch_anime_image once
Loaders == {1, 2}

\* the titles the loaders are started with: two episodes of one series (one
\* cache path) and a title whose cache key is empty
FetchTitles ==
    { Tag \o <<" ", "A", " ", "-", " ", "1">>,
      <<"A", " ", "-", " ", "2", " ", "[", "1", "]">>,
      <<".", ".", "/">> }

CachePaths == {GetCachedImagePath(CleanTitle(t)) : t \in FetchTitles}

\* what one search request can come to: requests.get raises, raise_for_status
\* raises, the body does not parse, "data" is empty, the image URL is empty,
\* or an image URL is found
SearchOutcomes == {"exception", "non2xx", "malformed", "empty", "no_url", "ok"}

\* the exception each failing outcome raises
Raised(outcome) ==
    CASE outcome = "exception" -> "RequestException"
      [] outcome = "non2xx"    -> "HTTPError"
      [] outcome = "malformed" -> "KeyError"
      [] OTHER                 -> "none"

(***************************************************************************)
(* State                                                                   *)
(***************************************************************************)
VARIABLES
    raw,          \* normalisation: the raw title handed to a derivation
    derived,      \* normalisation: what the derivation returned
    op,           \* normalisation: the derivation applied last
    now,          \* time.time(), in ticks
    last_call,    \* RateLimiter.last_call
    lock,         \* RateLimiter.lock: its holder, 0 when free
    pc,           \* wait(): where each thread is
    current_time, \* wait(): each thread's local current_time
    wake_at,      \* wait(): when each thread's time.sleep() may return
    calls,        \* history: calls of wait() each thread has completed
    first_start,  \* history: when each thread made its first call
    last_return,  \* history: when each thread's latest call returned
    returns,      \* history: the times of the two latest returns, newest last
    fs,           \* image cache: the file at each cache path and its bytes
    img_pc,       \* fetch_anime_image: where each loader is
    img_title,    \* fetch_anime_image: the title each loader was given
    attempt,      \* fetch_anime_image: each loader's loop variable
    img_result,   \* fetch_anime_image: what each call returned
    seen,         \* history: what os.path.exists found at the cache path
    waits,        \* history: jikan_limiter.wait() calls of each loader
    requests,     \* history: search requests of each loader
    downloads,    \* history: image requests of each loader
    sleeps,       \* history: the attempts after which each loader slept
    opened,       \* history: times each loader opened the cache file to write
    wrote,        \* history: the loader's write completed
    found,        \* history: some search of the loader returned an image URL
    tracked_anime, \* AnimeManager.tracked_anime
    tracked_file,  \* the file TRACKED_FILE
    qb_client,     \* AnimeManager.qb_client
    torrents,      \* the download client: the torrents added to it
    downloaded,    \* the download folder: its file names
    tracked_cards, \* the series names of the cards in the tracked view
    message,       \* the message box the last action showed
    last_op,       \* history: the last action, its argument and its inputs
    before,        \* history: tracked_anime and tracked_file before the last action
    submitted,     \* history: torrents_add calls of the last action
    round          \* history: a track and the untrack of the same title after it

VARIABLES
    utcnow,          \* update_countdown: datetime.utcnow()
    schedule_data,   \* update_countdown: what fetch_schedule returned
    countdown_label, \* TrackedAnimeCard.countdown_label: what it shows
    folder_files,    \* the files in settings['download_folder']
    qb_torrents,     \* qBittorrent: the torrents it holds
    download_cards,  \* the file names of the DownloadCards on display
    dl_op,           \* history: the last download operation and what it did
    settings,        \* AnimeManager.settings
    settings_file,   \* the file SETTINGS_FILE
    settings_op,     \* history: the last save_settings, its argument and the settings before
    series_status_cache, \* MainWindow.series_status_cache
    status_requests, \* history: status requests sent to the API for each series
    status_seen,     \* history: the statuses the lookups of each series returned
    lookup_op,       \* history: the last lookup, what the API did and what it gave
    lookup_sent,     \* history: the last request a lookup sent to the search endpoint
    main_pc,         \* the main flow: in the event loop, or the call it is inside
    cards_left,      \* display_tracked_anime: the cards still to construct
    loading,         \* the ImageLoader threads whose fetch is under way
    completed,       \* history: the runs of each timer's callback
    during,          \* history: the timers whose callback ran while a fetch was under way
    feed_entries,    \* the entries the RSS feed holds
    anime_tiles,     \* the available-entries view: the entries its cards show
    schedule_source, \* the schedule the schedule API holds
    schedule_text,   \* the schedule view: the schedule it shows
    refresh_op,      \* history: the last refresh and what it did
    downloaded_files, \* what get_downloaded_files returns: the files, newest first
    latest_episode,  \* TrackedAnimeCard: the label get_last_episode returned
    episode_op,      \* history: the last get_last_episode, its series and the files it saw
    episode_labels,  \* the episode label each place derived from the raw title
    reconnect_op     \* history: the last MainWindow.save_settings, whether the client's
                     \* settings differed from the ones held before, whether it reconnected

titleVars == <<raw, derived, op>>
limiterVars == <<now, last_call, lock, pc, current_time, wake_at,
                 calls, first_start, last_return, returns>>

trackVars == <<tracked_anime, tracked_file, qb_client, torrents, downloaded,
               tracked_cards, message, last_op, before, submitted, round>>

countdownVars == <<utcnow, schedule_data, countdown_label>>

\* the state of the main window's cards and dialogs
downloadVars == <<folder_files, qb_torrents, download_cards, dl_op>>
settingsVars == <<settings, settings_file, settings_op>>
lookupVars == <<series_status_cache, status_requests, status_seen, lookup_op>>
endpointVars == <<lookup_sent>>
mainVars == <<main_pc, cards_left, loading, completed, during>>
refreshVars == <<feed_entries, anime_tiles, schedule_source, schedule_text, refresh_op>>
episodeVars == <<downloaded_files, latest_episode, episode_op, episode_labels>>
reconnectVars == <<reconnect_op>>
sessionVars == <<endpointVars, mainVars, refreshVars, episodeVars, reconnectVars>>
windowVars == <<countdownVars, downloadVars, settingsVars, lookupVars, sessionVars>>

\* the tracked-list state without the client handle
trackRest == <<tracked_anime, tracked_file, torrents, downloaded,
               tracked_cards, message, last_op, before, submitted, round>>

fetchVars == <<fs, img_pc, img_title, attempt, img_result, seen, waits,
               requests, downloads, sleeps, opened, wrote, found>>

vars == <<raw, derived, op, now, last_call, lock, pc, current_time, wake_at,
          calls, first_start, last_return, returns,
          fs, img_pc, img_title, attempt, img_result, seen, waits,
          requests, downloads, sleeps, opened, wrote, found,
          tracked_anime, tracked_file, qb_client, torrents, downloaded,
          tracked_cards, message, last_op, before, submitted, round, windowVars>>

\* the parts of the state a specification does not use stay as constructed
TitleIdle == raw = <<>> /\ derived = <<>> /\ op = "off"

LimiterIdle ==
    /\ now = 0
    /\ last_call = 0
    /\ lock = 0
    /\ pc = [t \in Threads |-> "off"]
    /\ current_time = [t \in Threads |-> 0]
    /\ wake_at = [t \in Threads |-> 0]
    /\ calls = [t \in Threads |-> 0]
    /\ first_start = [t \in Threads |-> 0]
    /\ last_return = [t \in Threads |-> 0]
    /\ returns = <<>>

\* no file at a path, and a file of n bytes
NoFile == [exists |-> FALSE, size |-> 0]
File(n) == [exists |-> TRUE, size |-> n]

FetchFresh ==
    /\ img_title = [t \in Loaders |-> <<>>]
    /\ attempt = [t \in Loaders |-> 0]
    /\ img_result = [t \in Loaders |-> <<>>]
    /\ seen = [t \in Loaders |-> NoFile]
    /\ waits = [t \in Loaders |-> 0]
    /\ requests = [t \in Loaders |-> 0]
    /\ downloads = [t \in Loaders |-> 0]
    /\ sleeps = [t \in Loaders |-> {}]
    /\ opened = [t \in Loaders |-> 0]
    /\ wrote = [t \in Loaders |-> FALSE]
    /\ found = [t \in Loaders |-> FALSE]

FetchIdle ==
    /\ fs = [p \in CachePaths |-> NoFile]
    /\ img_pc = [t \in Loaders |-> "off"]
    /\ FetchFresh

\* no tracked file, and a tracked file holding text
NoTrackedFile == [exists |-> FALSE, text |-> <<>>]
TrackedFile(text) == [exists |-> TRUE, text |-> text]

NoOp == [name |-> "none", title |-> <<>>, tracked |-> FALSE, cause |-> "none"]
NoRound == [stage |-> "none", title |-> <<>>, list |-> <<>>, via |-> "none"]

TrackFresh ==
    /\ qb_client = "none"
    /\ torrents = {}
    /\ downloaded = {}
    /\ tracked_cards = {}
    /\ message = "none"
    /\ last_op = NoOp
    /\ submitted = 0
    /\ round = NoRound

TrackIdle ==
    /\ tracked_anime = <<>>
    /\ tracked_file = NoTrackedFile
    /\ before = [list |-> <<>>, file |-> NoTrackedFile]
    /\ TrackFresh

\* a point in time: the length of its month, the day of the month, the
\* weekday (0 = Monday), and the time of day
Instant(month_days, day, weekday, hour, minute, second) ==
    [month_days |-> month_days, day |-> day, weekday |-> weekday,
     hour |-> hour, minute |-> minute, second |-> second]

\* a label that was never set
NoLabel == [text |-> "", days |-> 0, hours |-> 0, minutes |-> 0]

\* fetch_schedule's None
NoSchedule == [ok |-> FALSE, schedule |-> <<>>]

CountdownIdle ==
    /\ utcnow = Instant(31, 1, 0, 0, 0, 0)
    /\ schedule_data = NoSchedule
    /\ countdown_label = NoLabel

\* no download operation yet
NoDlOp ==
    [name |-> "none", filename |-> <<>>, confirmed |-> TRUE,
     client |-> "none", file_was |-> FALSE,
     matched |-> {}, file_removed |-> FALSE, requests |-> {},
     listing |-> "none", result |-> FALSE, raised |-> FALSE, error |-> FALSE]

DownloadIdle ==
    /\ folder_files = {}
    /\ qb_torrents = {}
    /\ download_cards = {}
    /\ dl_op = NoDlOp

\* a dict without keys
EmptyDict == [key \in {} |-> <<>>]

\* no settings file, and a settings file holding text
NoSettingsFile == [exists |-> FALSE, text |-> <<>>]
SettingsFile(text) == [exists |-> TRUE, text |-> text]

NoSettingsOp == [name |-> "none", arg |-> EmptyDict, old |-> EmptyDict]

SettingsIdle ==
    /\ settings = EmptyDict
    /\ settings_file = NoSettingsFile
    /\ settings_op = NoSettingsOp

\* the series the tracked view has cards for
LookupSeries == {"X", "Y"}

NoLookup ==
    [kind |-> "none", via |-> "none", series |-> "none", outcome |-> "none",
     text |-> <<>>, requests |-> 0, result |-> <<>>]

\* the lookups as constructed: self.series_status_cache = {}
LookupIdle ==
    /\ series_status_cache = EmptyDict
    /\ status_requests = [series \in LookupSeries |-> 0]
    /\ status_seen = [series \in LookupSeries |-> {}]
    /\ lookup_op = NoLookup

\* no lookup has sent a request
NoRequest == [kind |-> "none", at |-> 0]

EndpointIdle == lookup_sent = NoRequest

\* the timers of setup_timers whose callbacks make no metadata, image or
\* schedule request
MainTimers == {"clock_timer", "downloads_timer", "feed_timer", "qb_timer"}

MainIdle ==
    /\ main_pc = "off"
    /\ cards_left = 0
    /\ loading = 0
    /\ completed = [timer \in MainTimers |-> 0]
    /\ during = {}

\* no refresh yet
NoRefresh == [name |-> "none", fetched |-> FALSE, rebuilt |-> FALSE, raised |-> FALSE]

\* the views as setup_ui leaves them: no cards, no schedule text
RefreshIdle ==
    /\ feed_entries = {}
    /\ anime_tiles = {}
    /\ schedule_source = 0
    /\ schedule_text = 0
    /\ refresh_op = NoRefresh

\* the places that derive an episode label: AnimeCard.setup_front,
\* DownloadCard.setup_front and TrackedAnimeCard.get_last_episode
LabelSites == {"anime_card", "download_card", "get_last_episode"}

\* no label derived yet
NoEpisodeLabel == [done |-> FALSE, raised |-> FALSE, label |-> <<>>]

\* no scan yet
NoScan == [name |-> "none", series |-> <<>>, files |-> <<>>]

EpisodeIdle ==
    /\ downloaded_files = <<>>
    /\ latest_episode = <<>>
    /\ episode_op = NoScan
    /\ episode_labels = [site \in LabelSites |-> NoEpisodeLabel]

\* the settings form was not saved yet
NoReconnect == [name |-> "none", changed |-> FALSE, tried |-> FALSE]

ReconnectIdle == reconnect_op = NoReconnect

SessionIdle == EndpointIdle /\ MainIdle /\ RefreshIdle /\ EpisodeIdle /\ ReconnectIdle

WindowIdle ==
    CountdownIdle /\ DownloadIdle /\ SettingsIdle /\ LookupIdle /\ SessionIdle

\* what an action of one specification leaves alone: the other specifications'
\* parts of the state
exceptCountdown == <<titleVars, limiterVars, fetchVars, trackVars, downloadVars,
                     settingsVars, lookupVars, sessionVars>>
exceptDownload == <<titleVars, limiterVars, fetchVars, trackRest, countdownVars,
                    settingsVars, lookupVars, sessionVars>>
exceptSettings == <<titleVars, limiterVars, fetchVars, trackVars, countdownVars,
                    downloadVars, lookupVars, sessionVars>>
exceptLookup == <<titleVars, limiterVars, fetchVars, trackVars, countdownVars,
                  downloadVars, settingsVars, sessionVars>>
windowRest == <<countdownVars, downloadVars, settingsVars, lookupVars>>
exceptEndpoint == <<titleVars, fetchVars, trackVars, windowRest, mainVars, refreshVars,
                    episodeVars, reconnectVars>>
exceptMain == <<titleVars, limiterVars, fetchVars, trackVars, windowRest, endpointVars,
                refreshVars, episodeVars, reconnectVars>>
exceptRefresh == <<titleVars, limiterVars, fetchVars, trackVars, windowRest, endpointVars,
                   mainVars, episodeVars, reconnectVars>>
exceptEpisode == <<titleVars, limiterVars, fetchVars, trackVars, windowRest, endpointVars,
                   mainVars, refreshVars, reconnectVars>>
exceptReconnect == <<titleVars, limiterVars, fetchVars, trackVars, countdownVars,
                     downloadVars, lookupVars, endpointVars, mainVars, refreshVars,
                     episodeVars>>

(***************************************************************************)
(* Normalisation as a state machine: a derivation is applied to a raw      *)
(* title, and a derived name may be handed to a derivation again (as the   *)
(* tracked view does with the names on_anime_clicked stored).              *)
(***************************************************************************)
TitleInit ==
    /\ raw \in Titles
    /\ derived = <<>>
    /\ op = "none"
    /\ LimiterIdle
    /\ FetchIdle
    /\ TrackIdle
    /\ WindowIdle

ApplyCleanTitle ==
    /\ op = "none"
    /\ derived' = CleanTitle(raw)
    /\ op' = "clean_title"
    /\ UNCHANGED <<raw, limiterVars, fetchVars, trackVars, windowVars>>

ApplySeriesName ==
    /\ op = "none"
    /\ derived' = SeriesName(raw)
    /\ op' = "series_name"
    /\ UNCHANGED <<raw, limiterVars, fetchVars, trackVars, windowVars>>

ApplyGetCachedImagePath ==
    /\ op = "none"
    /\ derived' = GetCachedImagePath(raw)
    /\ op' = "cache_path"
    /\ UNCHANGED <<raw, limiterVars, fetchVars, trackVars, windowVars>>

TitleNext == ApplyCleanTitle \/ ApplySeriesName \/ ApplyGetCachedImagePath

TitleSpec == TitleInit /\ [][TitleNext]_vars

(***************************************************************************)
(* RateLimiter.wait(), one step per statement, for threads sharing one     *)
(* limiter.  time.sleep(d) returns no earlier than d after it was called.  *)
(***************************************************************************)
LimiterInit ==
    /\ now \in 0..Interval
    /\ last_call = 0
    /\ lock = 0
    /\ pc = [t \in Threads |-> "idle"]
    /\ current_time = [t \in Threads |-> 0]
    /\ wake_at = [t \in Threads |-> 0]
    /\ calls = [t \in Threads |-> 0]
    /\ first_start = [t \in Threads |-> 0]
    /\ last_return = [t \in Threads |-> 0]
    /\ returns = <<>>
    /\ TitleIdle
    /\ FetchIdle
    /\ TrackIdle
    /\ WindowIdle

\* the clock advances
Tick ==
    /\ now < MaxTime
    /\ now' = now + 1
    /\ UNCHANGED <<last_call, lock, pc, current_time, wake_at,
                   calls, first_start, last_return, returns, titleVars, fetchVars, trackVars, windowVars>>

\* a thread calls wait()
Call(t) ==
    /\ pc[t] = "idle"
    /\ calls[t] < MaxCalls
    /\ pc' = [pc EXCEPT ![t] = "acquire"]
    /\ first_start' = IF calls[t] = 0 THEN [first_start EXCEPT ![t] = now]
                      ELSE first_start
    /\ UNCHANGED <<now, last_call, lock, current_time, wake_at,
                   calls, last_return, returns, titleVars, fetchVars, trackVars, windowVars>>

\* threading.Lock: free when nobody holds it
LockFree(l) == l = 0

\* with self.lock:
Acquire(t) ==
    /\ pc[t] = "acquire"
    /\ LockFree(lock)
    /\ lock' = t
    /\ pc' = [pc EXCEPT ![t] = "read_clock"]
    /\ UNCHANGED <<now, last_call, current_time, wake_at,
                   calls, first_start, last_return, returns, titleVars, fetchVars, trackVars, windowVars>>

\* current_time = time.time()
ReadClock(t) ==
    /\ pc[t] = "read_clock"
    /\ current_time' = [current_time EXCEPT ![t] = now]
    /\ pc' = [pc EXCEPT ![t] = "check"]
    /\ UNCHANGED <<now, last_call, lock, wake_at,
                   calls, first_start, last_return, returns, titleVars, fetchVars, trackVars, windowVars>>

\* a plausible slip: the comparison turned round
MustSleepInverted(time_since_last_call) == time_since_last_call > Interval

\* time_since_last_call < 1.0 / self.calls_per_second
MustSleep(time_since_last_call) == time_since_last_call < Interval

\* time_since_last_call = current_time - self.last_call; if ...: time.sleep(...)
Check(t) ==
    /\ pc[t] = "check"
    /\ LET time_since_last_call == current_time[t] - last_call
       IN  IF MustSleep(time_since_last_call)
           THEN /\ wake_at' = [wake_at EXCEPT ![t] = now + (Interval - time_since_last_call)]
                /\ pc' = [pc EXCEPT ![t] = "sleep"]
           ELSE /\ pc' = [pc EXCEPT ![t] = "stamp"]
                /\ UNCHANGED wake_at
    /\ UNCHANGED <<now, last_call, lock, current_time,
                   calls, first_start, last_return, returns, titleVars, fetchVars, trackVars, windowVars>>

\* time.sleep() returns
Wake(t) ==
    /\ pc[t] = "sleep"
    /\ now >= wake_at[t]
    /\ pc' = [pc EXCEPT ![t] = "stamp"]
    /\ UNCHANGED <<now, last_call, lock, current_time, wake_at,
                   calls, first_start, last_return, returns, titleVars, fetchVars, trackVars, windowVars>>

\* self.last_call = time.time(); the lock is released and wait() returns
Stamp(t) ==
    /\ pc[t] = "stamp"
    /\ last_call' = now
    /\ lock' = IF lock = t THEN 0 ELSE lock
    /\ pc' = [pc EXCEPT ![t] = "idle"]
    /\ current_time' = [current_time EXCEPT ![t] = 0]
    /\ wake_at' = [wake_at EXCEPT ![t] = 0]
    /\ calls' = [calls EXCEPT ![t] = @ + 1]
    /\ last_return' = [last_return EXCEPT ![t] = now]
    /\ returns' = IF returns = <<>> THEN <<now>>
                  ELSE <<returns[Len(returns)], now>>
    /\ UNCHANGED <<now, first_start, titleVars, fetchVars, trackVars, windowVars>>

LimiterNext ==
    \/ Tick
    \/ \E t \in Threads : Call(t)
    \/ \E t \in Threads : Acquire(t)
    \/ \E t \in Threads : ReadClock(t)
    \/ \E t \in Threads : Check(t)
    \/ \E t \in Threads : Wake(t)
    \/ \E t \in Threads : Stamp(t)

LimiterSpec == LimiterInit /\ [][LimiterNext]_vars

\* the threads inside the with-block
InLock == {t \in Threads : pc[t] \in {"read_clock", "check", "sleep", "stamp"}}

(***************************************************************************)
(* C1: any two consecutive returns of wait() on one limiter are at least   *)
(* 1/calls_per_second apart, at most one caller is inside the lock at a    *)
(* time, and the calls a thread has completed took at least                *)
(* (calls - 1)/calls_per_second from the start of its first call.          *)
(***************************************************************************)
C1_RateLimited ==
    /\ Len(returns) = 2 => returns[2] - returns[1] >= Interval
    /\ Cardinality(InLock) <= 1
    /\ \A t \in Threads :
          calls[t] >= 1 => last_return[t] - first_start[t] >= (calls[t] - 1) * Interval

\* two returns exactly one interval apart, a thread sleeping inside the lock
\* and the other thread waiting for the lock
C1_Witness ==
    /\ Len(returns) = 2
    /\ returns[2] - returns[1] = Interval
    /\ \E t \in Threads : pc[t] = "sleep" /\ lock = t /\ calls[t] >= 1
    /\ \E t \in Threads : pc[t] = "acquire"

(***************************************************************************)
(* C6 (as claimed): both derivations of the canonical series name are      *)
(* idempotent: applied to its own result, a derivation returns that result *)
(* unchanged.                                                              *)
(***************************************************************************)
C6_CanonicalNameIdempotent ==
    /\ op = "clean_title" => CleanTitle(derived) = derived
    /\ op = "series_name" => SeriesName(derived) = derived

\* the cache key inside a path get_cached_image_path returned
KeyOf(path) == SubSeq(path, Len(CacheDirPrefix) + 1, Len(path) - Len(JpgSuffix))

(***************************************************************************)
(* C7: the cache key of every title holds only alphanumerics, space,       *)
(* hyphen and underscore, hence no '/', no '\' and no '..'; a title that   *)
(* sanitizes to the empty string still yields a path (the cache directory, *)
(* the empty key, the extension).                                          *)
(***************************************************************************)
C7_SafeCacheKey ==
    op = "cache_path" =>
        /\ Len(derived) >= Len(CacheDirPrefix) + Len(JpgSuffix)
        /\ SubSeq(derived, 1, Len(CacheDirPrefix)) = CacheDirPrefix
        /\ Chars(KeyOf(derived)) \subseteq Alnum \cup {" ", "-", "_"}
        /\ "/" \notin Chars(KeyOf(derived))
        /\ "\\" \notin Chars(KeyOf(derived))
        /\ ~Contains(<<".", ".">>, KeyOf(derived))
        /\ (KeyOf(derived) = <<>> \/ KeyOf(derived)[Len(KeyOf(derived))] \notin Whitespace)

\* a title of traversal characters only: its key is empty
C7_Witness ==
    /\ op = "cache_path"
    /\ raw = <<".", ".", "/">>
    /\ derived = CacheDirPrefix \o JpgSuffix

(***************************************************************************)
(* AnimeManager.fetch_anime_image, run by concurrent ImageLoader threads   *)
(* over one cache directory.                                               *)
(***************************************************************************)
FetchInit ==
    /\ fs \in [CachePaths -> {NoFile, File(ImageSize)}]
    /\ img_pc = [t \in Loaders |-> "idle"]
    /\ FetchFresh
    /\ TitleIdle
    /\ LimiterIdle
    /\ TrackIdle
    /\ WindowIdle

\* a plausible slip: the cache is not consulted
ExistsNever(file) == FALSE

\* os.path.exists(cache_path)
Exists(file) == file.exists

\* ImageLoader.run calls fetch_anime_image(title): the title is cleaned and
\* the cache is checked
Start(t, title) ==
    LET cache_path == GetCachedImagePath(CleanTitle(title))
    IN  /\ img_pc[t] = "idle"
        /\ img_title' = [img_title EXCEPT ![t] = title]
        /\ seen' = [seen EXCEPT ![t] = fs[cache_path]]
        /\ IF Exists(fs[cache_path])
           THEN /\ img_result' = [img_result EXCEPT ![t] = cache_path]
                /\ img_pc' = [img_pc EXCEPT ![t] = "done"]
           ELSE /\ img_pc' = [img_pc EXCEPT ![t] = "attempt"]
                /\ UNCHANGED img_result
        /\ UNCHANGED <<fs, attempt, waits, requests, downloads, sleeps, opened,
                       wrote, found, titleVars, limiterVars, trackVars, windowVars>>

\* a plausible slip: only the errors of the requests library are handled
CatchesRequestsOnly(e) == e \in {"RequestException", "HTTPError"}

\* except Exception: every error the body raises is an Exception
Catches(e) == e \in {"RequestException", "HTTPError", "KeyError", "OSError"}

\* a plausible slip: the sleep is taken after the last attempt too
SleepsAfterAlways(a) == TRUE

\* if attempt < MAX_RETRIES - 1: time.sleep(1)
SleepsAfter(a) == a < MaxRetries - 1

\* range(MAX_RETRIES) is exhausted after attempt a
LastAttempt(a) == a + 1 >= MaxRetries

\* the rest of an iteration that produced no file: the handler (or the plain
\* fall-through when e is "none") sleeps unless the attempt was the last, and
\* the loop goes on or ends with PLACEHOLDER_IMAGE; an error the handler does
\* not catch leaves the call
EndAttempt(t, e) ==
    IF e # "none" /\ ~Catches(e)
    THEN /\ img_pc' = [img_pc EXCEPT ![t] = "raised"]
         /\ UNCHANGED <<attempt, sleeps, img_result>>
    ELSE /\ sleeps' = IF SleepsAfter(attempt[t])
                      THEN [sleeps EXCEPT ![t] = @ \cup {attempt[t]}]
                      ELSE sleeps
         /\ attempt' = [attempt EXCEPT ![t] = @ + 1]
         /\ IF LastAttempt(attempt[t])
            THEN /\ img_pc' = [img_pc EXCEPT ![t] = "done"]
                 /\ img_result' = [img_result EXCEPT ![t] = PlaceholderImage]
            ELSE /\ img_pc' = [img_pc EXCEPT ![t] = "attempt"]
                 /\ UNCHANGED img_result

\* self.jikan_limiter.wait(); requests.get(query_url); raise_for_status();
\* response.json(); the image URL is read from the first result
Search(t, outcome) ==
    /\ img_pc[t] = "attempt"
    /\ waits' = [waits EXCEPT ![t] = @ + 1]
    /\ requests' = [requests EXCEPT ![t] = @ + 1]
    /\ IF outcome = "ok"
       THEN /\ img_pc' = [img_pc EXCEPT ![t] = "download"]
            /\ found' = [found EXCEPT ![t] = TRUE]
            /\ UNCHANGED <<attempt, sleeps, img_result>>
       ELSE /\ EndAttempt(t, Raised(outcome))
            /\ found' = IF outcome = "no_url" THEN [found EXCEPT ![t] = TRUE] ELSE found
    /\ UNCHANGED <<fs, img_title, seen, downloads, opened, wrote,
                   titleVars, limiterVars, trackVars, windowVars>>

\* img_response = requests.get(image_url); img_response.raise_for_status()
Download(t, ok) ==
    /\ img_pc[t] = "download"
    /\ downloads' = [downloads EXCEPT ![t] = @ + 1]
    /\ IF ok
       THEN /\ img_pc' = [img_pc EXCEPT ![t] = "open"]
            /\ UNCHANGED <<attempt, sleeps, img_result>>
       ELSE EndAttempt(t, "HTTPError")
    /\ UNCHANGED <<fs, img_title, seen, waits, requests, opened, wrote, found,
                   titleVars, limiterVars, trackVars, windowVars>>

\* open(cache_path, 'wb'): the file is created, or truncated when it is there
Open(t, ok) ==
    LET cache_path == GetCachedImagePath(CleanTitle(img_title[t]))
    IN  /\ img_pc[t] = "open"
        /\ IF ok
           THEN /\ fs' = [fs EXCEPT ![cache_path] = File(0)]
                /\ opened' = [opened EXCEPT ![t] = @ + 1]
                /\ img_pc' = [img_pc EXCEPT ![t] = "write"]
                /\ UNCHANGED <<attempt, sleeps, img_result>>
           ELSE /\ EndAttempt(t, "OSError")
                /\ UNCHANGED <<fs, opened>>
        /\ UNCHANGED <<img_title, seen, waits, requests, downloads, wrote, found,
                       titleVars, limiterVars, trackVars, windowVars>>

\* f.write(img_response.content) from offset 0, and the file is closed: n
\* bytes reach the file, all of them or fewer when the write fails
Write(t, n) ==
    LET cache_path == GetCachedImagePath(CleanTitle(img_title[t]))
        held == fs[cache_path].size
    IN  /\ img_pc[t] = "write"
        /\ fs' = [fs EXCEPT ![cache_path] = File(IF held > n THEN held ELSE n)]
        /\ IF n = ImageSize
           THEN /\ wrote' = [wrote EXCEPT ![t] = TRUE]
                /\ img_result' = [img_result EXCEPT ![t] = cache_path]
                /\ img_pc' = [img_pc EXCEPT ![t] = "done"]
                /\ UNCHANGED <<attempt, sleeps>>
           ELSE /\ EndAttempt(t, "OSError")
                /\ UNCHANGED wrote
        /\ UNCHANGED <<img_title, seen, waits, requests, downloads, opened, found,
                       titleVars, limiterVars, trackVars, windowVars>>

FetchNext ==
    \/ \E t \in Loaders, title \in FetchTitles : Start(t, title)
    \/ \E t \in Loaders, outcome \in SearchOutcomes : Search(t, outcome)
    \/ \E t \in Loaders, ok \in BOOLEAN : Download(t, ok)
    \/ \E t \in Loaders, ok \in BOOLEAN : Open(t, ok)
    \/ \E t \in Loaders, n \in 0..ImageSize : Write(t, n)

FetchSpec == FetchInit /\ [][FetchNext]_vars

\* the cache path of the title a loader was given
PathOf(t) == GetCachedImagePath(CleanTitle(img_title[t]))

(***************************************************************************)
(* C2: a call that finds a file at the cache path of its title returns     *)
(* that path at once: no rate-limiter wait, no request, no write.          *)
(***************************************************************************)
C2_CacheHit ==
    \A t \in Loaders :
        seen[t].exists =>
            /\ img_pc[t] = "done"
            /\ img_result[t] = PathOf(t)
            /\ waits[t] = 0
            /\ requests[t] = 0
            /\ downloads[t] = 0
            /\ opened[t] = 0
            /\ ~wrote[t]

\* a loader hit the cache while the other one went to the network for another path
C2_Witness ==
    \E t, u \in Loaders :
        /\ seen[t] = File(ImageSize)
        /\ img_pc[t] = "done"
        /\ fs[PathOf(t)] = File(ImageSize)
        /\ requests[u] > 0

(***************************************************************************)
(* C3: with no cached file and a search that fails on every request, the   *)
(* call makes exactly 3 attempts (3 waits, 3 search requests), sleeps      *)
(* after the first and the second but not after the third, and returns the *)
(* placeholder; whatever the outcomes, it never makes more than 3.         *)
(***************************************************************************)
C3_ThreeAttempts ==
    \A t \in Loaders :
        /\ attempt[t] <= MaxRetries
        /\ waits[t] <= MaxRetries
        /\ requests[t] <= MaxRetries
        /\ (img_pc[t] = "done" /\ ~seen[t].exists /\ ~found[t]) =>
              /\ attempt[t] = 3
              /\ waits[t] = 3
              /\ requests[t] = 3
              /\ downloads[t] = 0
              /\ sleeps[t] = {0, 1}
              /\ img_result[t] = PlaceholderImage

\* a call that ended after three failed searches
C3_Witness ==
    \E t \in Loaders :
        /\ img_pc[t] = "done"
        /\ ~seen[t].exists
        /\ ~found[t]
        /\ requests[t] = 3
        /\ img_result[t] = PlaceholderImage

\* what is left of a call: the attempts not yet started, and within an
\* attempt the statements not yet executed
Remaining(t) ==
    LET rank == CASE img_pc[t] = "idle"     -> 5
                  [] img_pc[t] = "attempt"  -> 4
                  [] img_pc[t] = "download" -> 3
                  [] img_pc[t] = "open"     -> 2
                  [] img_pc[t] = "write"    -> 1
                  [] OTHER                  -> 0
    IN  IF img_pc[t] \in {"done", "raised"} THEN 0
        ELSE (MaxRetries - attempt[t]) * 5 + rank

\* a call that has not returned is at a statement that can execute
CanStep(t) == img_pc[t] \in {"attempt", "download", "open", "write"}

C4_Returned ==
    \A t \in Loaders :
        /\ img_pc[t] # "raised"
        /\ attempt[t] <= MaxRetries
        /\ img_pc[t] \notin {"idle", "done"} => CanStep(t)
        /\ img_pc[t] = "done" =>
              /\ img_result[t] \in {PathOf(t), PlaceholderImage}
              /\ img_result[t] = PathOf(t) => (seen[t].exists \/ wrote[t])
              /\ img_result[t] = PlaceholderImage =>
                    (attempt[t] = MaxRetries /\ ~wrote[t] /\ ~seen[t].exists)

C4_Progress ==
    \A t \in Loaders :
        /\ Remaining(t)' <= Remaining(t)
        /\ img_pc[t]' # img_pc[t] \/ attempt[t]' # attempt[t] => Remaining(t)' < Remaining(t)

(***************************************************************************)
(* C4: for every title and every sequence of network, parse and file       *)
(* outcomes the call ends (until it has returned it is at a statement that *)
(* can execute, and every step it takes leaves strictly less of the call   *)
(* to do) and returns the cache path of its title, only when the file was  *)
(* there or the call wrote it, or the placeholder path; it never raises.   *)
(***************************************************************************)
C4_ReturnsPathOrPlaceholder == []C4_Returned /\ [][C4_Progress]_vars

\* one call returned the placeholder after a failed write in its last attempt,
\* the other returned the path of the file it wrote
C4_Witness ==
    \E t, u \in Loaders :
        /\ img_pc[t] = "done" /\ img_result[t] = PlaceholderImage /\ opened[t] > 0
        /\ img_pc[u] = "done" /\ img_result[u] = PathOf(u) /\ wrote[u]

(***************************************************************************)
(* C5 (as claimed): the cache file is written atomically: a file that the  *)
(* existence check finds at the cache path holds the complete image.       *)
(***************************************************************************)
C5_CacheFileComplete ==
    \A t \in Loaders : seen[t].exists => seen[t].size = ImageSize

(***************************************************************************)
(* The tracked list: load/save, on_anime_clicked, untrack_series and the   *)
(* tracked view                                                            *)
(***************************************************************************)
\* tracked entries the model lets the list grow to
MaxTracked == 3

\* files the model lets the download folder hold
MaxDownloaded == 1

\* the titles of the feed cards the user can click: series "A", "A " (a
\* space left before the separator) and "AB"
ClickTitles ==
    { Tag \o <<" ", "A", " ", "-", " ", "1">>,
      <<"A", " ", " ", "-", " ", "2">>,
      <<"A", "B", " ", "-", " ", "1">> }

\* entry.get("link") of the feed entry of a title
Link(title) == <<"m", ":">> \o title

\* what fetch_rss_feed can return: None, a feed without entries, the feed
\* with every title (the first one twice)
NoFeed == [ok |-> FALSE, entries |-> <<>>]
Feeds ==
    { NoFeed,
      [ok |-> TRUE, entries |-> <<>>],
      [ok |-> TRUE,
       entries |-> << Tag \o <<" ", "A", " ", "-", " ", "1">>,
                      Tag \o <<" ", "A", " ", "-", " ", "1">>,
                      <<"A", " ", " ", "-", " ", "2">>,
                      <<"A", "B", " ", "-", " ", "1">> >>] }

\* f.readlines(): the lines of a text, each with its line end
RECURSIVE ReadLines(_)
ReadLines(text) ==
    IF text = <<>> THEN <<>>
    ELSE LET idx == {i \in 1..Len(text) : text[i] = "\n"}
         IN  IF idx = {} THEN <<text>>
             ELSE <<SubSeq(text, 1, Min(idx))>>
                  \o ReadLines(SubSeq(text, Min(idx) + 1, Len(text)))

\* load_tracked_anime
LoadTrackedAnime(file) ==
    IF file.exists
    THEN LET lines == ReadLines(file.text)
         IN  [i \in 1..Len(lines) |-> Strip(lines[i])]
    ELSE <<>>

\* "\n".join(tracked)
RECURSIVE JoinLines(_)
JoinLines(tracked) ==
    IF tracked = <<>> THEN <<>>
    ELSE IF Len(tracked) = 1 THEN tracked[1]
    ELSE tracked[1] \o <<"\n">> \o JoinLines(Tail(tracked))

\* the file save_tracked_anime(tracked) leaves
SavedFile(tracked) == TrackedFile(JoinLines(tracked))

\* any(series_name in anime for anime in self.manager.tracked_anime)
IsTracked(series_name, tracked) ==
    \E i \in 1..Len(tracked) : Contains(series_name, tracked[i])

\* a plausible slip: only the entries equal to the series name are removed
WithoutExact(series_name, tracked) ==
    LET Keep(anime) == anime # series_name
    IN  SelectSeq(tracked, Keep)

\* [anime for anime in self.manager.tracked_anime if series_name not in anime]
Without(series_name, tracked) ==
    LET Keep(anime) == ~Contains(series_name, anime)
    IN  SelectSeq(tracked, Keep)

\* file.endswith(".mkv")
IsMkv(file) ==
    Len(file) >= 4 /\ SubSeq(file, Len(file) - 3, Len(file)) = <<".", "m", "k", "v">>

\* a plausible slip: the downloaded files left out
SeriesSetTrackedOnly(tracked, files) ==
    {SeriesName(tracked[i]) : i \in 1..Len(tracked)}

\* display_tracked_anime's series_set
SeriesSet(tracked, files) ==
    {SeriesName(tracked[i]) : i \in 1..Len(tracked)}
        \cup {SeriesName(f) : f \in {g \in files : IsMkv(g)}}

\* a plausible slip: the raw title is stored
TrackedEntryRaw(title) == title

\* what on_anime_clicked appends: self.manager.tracked_anime.append(series_name)
TrackedEntry(title) == SeriesName(title)

\* a plausible slip: the error of torrents_add is swallowed
AddTorrentAlways(client, accepted) == client # "none"

\* add_torrent's result: False without a client or when torrents_add raises
AddTorrent(client, accepted) == client # "none" /\ accepted

\* the first feed entry with the title, 0 if none (the loop returns at it)
FirstEntry(feed, title) ==
    LET idx == {i \in 1..Len(feed.entries) : feed.entries[i] = title}
    IN  IF idx = {} THEN 0 ELSE Min(idx)

TrackInit ==
    /\ tracked_file \in {NoTrackedFile, TrackedFile(<<"A", "B", "\n">>)}
    /\ tracked_anime = LoadTrackedAnime(tracked_file)
    /\ before = [list |-> tracked_anime, file |-> tracked_file]
    /\ TrackFresh
    /\ TitleIdle
    /\ LimiterIdle
    /\ FetchIdle
    /\ WindowIdle

\* the round a track and an untrack of the same title make: a track opens it,
\* the untrack of that title closes it, anything else ends it
RoundAfterTrack(title) ==
    [stage |-> "tracked", title |-> title, list |-> tracked_anime, via |-> "none"]

RoundAfterUntrack(same, via) ==
    IF round.stage = "tracked" /\ same
    THEN [round EXCEPT !.stage = "untracked", !.via = via]
    ELSE NoRound

\* MainWindow.on_anime_clicked(title).  feed is what fetch_rss_feed returns,
\* dialog how the connection dialog ends when there is no client ("accepted",
\* "cancelled", "failed" for a failed try_connect followed by cancel), and
\* accepted whether torrents_add goes through.
OnAnimeClicked(title, feed, dialog, accepted) ==
    LET series_name == SeriesName(title)
        is_tracked == IsTracked(series_name, tracked_anime)
        entry == FirstEntry(feed, title)
        client == IF qb_client # "none" THEN qb_client
                  ELSE IF dialog = "accepted" THEN "connected"
                  ELSE IF dialog = "failed" THEN "stale"
                  ELSE "none"
        connected == qb_client # "none" \/ dialog = "accepted"
        added == AddTorrent(client, accepted)
        cause == IF is_tracked THEN "none"
                 ELSE IF ~feed.ok THEN "feed_unavailable"
                 ELSE IF entry = 0 THEN "not_in_feed"
                 ELSE IF ~connected THEN "no_session"
                 ELSE IF ~accepted THEN "add_failed"
                 ELSE "none"
    IN  /\ Len(tracked_anime) < MaxTracked \/ is_tracked
        \* inputs the call does not come to read are fixed
        /\ (is_tracked => feed = NoFeed)
        /\ (is_tracked \/ ~feed.ok \/ entry = 0 \/ qb_client # "none") => dialog = "cancelled"
        /\ (is_tracked \/ ~feed.ok \/ entry = 0 \/ ~connected) => accepted
        /\ before' = [list |-> tracked_anime, file |-> tracked_file]
        /\ last_op' = [name |-> "click", title |-> title,
                       tracked |-> is_tracked, cause |-> cause]
        /\ IF is_tracked
           THEN /\ tracked_anime' = Without(series_name, tracked_anime)
                /\ tracked_file' = SavedFile(tracked_anime')
                /\ tracked_cards' = SeriesSet(tracked_anime', downloaded)
                /\ message' = "stopped"
                /\ submitted' = 0
                /\ round' = RoundAfterUntrack(round.title = title, "click")
                /\ UNCHANGED <<qb_client, torrents>>
           ELSE IF ~feed.ok
           THEN /\ message' = "no_feed"
                /\ submitted' = 0
                /\ round' = NoRound
                /\ UNCHANGED <<tracked_anime, tracked_file, tracked_cards,
                               qb_client, torrents>>
           ELSE IF entry = 0
           THEN /\ message' = "not_found"
                /\ submitted' = 0
                /\ round' = NoRound
                /\ UNCHANGED <<tracked_anime, tracked_file, tracked_cards,
                               qb_client, torrents>>
           ELSE IF ~connected
           THEN /\ message' = "not_connected"
                /\ qb_client' = client
                /\ submitted' = 0
                /\ round' = NoRound
                /\ UNCHANGED <<tracked_anime, tracked_file, tracked_cards, torrents>>
           ELSE /\ qb_client' = client
                /\ submitted' = 1
                /\ torrents' = IF accepted
                               THEN torrents \cup {[url |-> Link(feed.entries[entry]),
                                                    category |-> "Anime"]}
                               ELSE torrents
                /\ IF added
                   THEN /\ tracked_anime' = Append(tracked_anime, TrackedEntry(title))
                        /\ tracked_file' = SavedFile(tracked_anime')
                        /\ tracked_cards' = SeriesSet(tracked_anime', downloaded)
                        /\ message' = "started"
                        /\ round' = RoundAfterTrack(title)
                   ELSE /\ message' = "failed"
                        /\ round' = NoRound
                        /\ UNCHANGED <<tracked_anime, tracked_file, tracked_cards>>
        /\ UNCHANGED <<downloaded, titleVars, limiterVars, fetchVars, windowVars>>

\* TrackedAnimeCard.untrack_series of the card of series_name
UntrackSeries(series_name) ==
    /\ series_name \in tracked_cards
    /\ before' = [list |-> tracked_anime, file |-> tracked_file]
    /\ last_op' = [name |-> "untrack", title |-> series_name,
                   tracked |-> IsTracked(series_name, tracked_anime), cause |-> "none"]
    /\ tracked_anime' = Without(series_name, tracked_anime)
    /\ tracked_file' = SavedFile(tracked_anime')
    /\ tracked_cards' = SeriesSet(tracked_anime', downloaded)
    /\ message' = "stopped"
    /\ submitted' = 0
    /\ round' = RoundAfterUntrack(
                    series_name = SeriesName(TrackedEntry(round.title)), "card")
    /\ UNCHANGED <<qb_client, torrents, downloaded, titleVars, limiterVars, fetchVars, windowVars>>

\* MainWindow.connect_qbittorrent: setup_qbittorrent leaves a client object,
\* logged in or not
ConnectQbittorrent(ok) ==
    /\ qb_client' = IF ok THEN "connected" ELSE "stale"
    /\ qb_client' # qb_client
    /\ UNCHANGED <<tracked_anime, tracked_file, torrents, downloaded, tracked_cards,
                   message, last_op, before, submitted, round,
                   titleVars, limiterVars, fetchVars, windowVars>>

\* the download client finishes a torrent: its file is in the download folder
DownloadCompletes(torrent) ==
    /\ torrent \in torrents
    /\ LET file == SubSeq(torrent.url, 3, Len(torrent.url)) \o <<".", "m", "k", "v">>
       IN  /\ file \notin downloaded
           /\ Cardinality(downloaded) < MaxDownloaded
           /\ downloaded' = downloaded \cup {file}
    /\ UNCHANGED <<tracked_anime, tracked_file, qb_client, torrents, tracked_cards,
                   message, last_op, before, submitted, round,
                   titleVars, limiterVars, fetchVars, windowVars>>

\* MainWindow.update_tracked_list, on its timer
UpdateTrackedList ==
    /\ tracked_cards' = SeriesSet(tracked_anime, downloaded)
    /\ tracked_cards' # tracked_cards
    /\ UNCHANGED <<tracked_anime, tracked_file, qb_client, torrents, downloaded,
                   message, last_op, before, submitted, round,
                   titleVars, limiterVars, fetchVars, windowVars>>

Next ==
    \/ \E title \in ClickTitles, feed \in Feeds,
          dialog \in {"accepted", "cancelled", "failed"}, accepted \in BOOLEAN :
            OnAnimeClicked(title, feed, dialog, accepted)
    \/ \E series_name \in tracked_cards : UntrackSeries(series_name)
    \/ \E ok \in BOOLEAN : ConnectQbittorrent(ok)
    \/ \E torrent \in torrents : DownloadCompletes(torrent)
    \/ UpdateTrackedList

Spec == TrackInit /\ [][Next]_vars

\* the members of a list
ToSet(list) == {list[i] : i \in 1..Len(list)}

(***************************************************************************)
(* C8 (as claimed): a track of a title whose series is not tracked,        *)
(* followed by the untrack of the same title (a second click, or the       *)
(* untrack button of its tracked card), leaves the list, in memory and as  *)
(* saved, with the members it had before the track.                        *)
(***************************************************************************)
C8_TrackUntrackRoundTrip ==
    round.stage = "untracked" =>
        /\ ToSet(tracked_anime) = ToSet(round.list)
        /\ tracked_file = SavedFile(round.list)

\* the same round trip when the untrack is the second click on the feed card
C8_RoundTripByClick ==
    round.stage = "untracked" /\ round.via = "click" =>
        /\ tracked_anime = round.list
        /\ tracked_file = SavedFile(round.list)

C10_FailedTrackChangesNothing ==
    /\ submitted <= 1
    /\ last_op.name = "click" /\ last_op.cause # "none" =>
          /\ message \in {"no_feed", "not_found", "not_connected", "failed"}
          /\ tracked_anime = before.list
          /\ tracked_file = before.file

\* a submission that the client refused, with entries in the list and the file
C10_Witness ==
    /\ last_op.name = "click"
    /\ last_op.cause = "add_failed"
    /\ submitted = 1
    /\ message = "failed"
    /\ Len(tracked_anime) >= 1
    /\ tracked_file.exists


\* the series name an untrack was made for: the card's, or the one derived
\* from the clicked title
UntrackedName ==
    IF last_op.name = "untrack" THEN last_op.title ELSE SeriesName(last_op.title)

\* the last operation on the list was an untrack (the card's button, or a click
\* on a title whose series was tracked)
WasUntrack ==
    last_op.name = "untrack" \/ (last_op.name = "click" /\ last_op.tracked)

\* the positions of list whose entry does not contain s, and the j-th of them
KeptAt(s, list) == {i \in 1..Len(list) : ~Contains(s, list[i])}
NthKept(s, list, j) ==
    CHOOSE i \in KeptAt(s, list) : Cardinality({k \in KeptAt(s, list) : k <= i}) = j

C11_Removed ==
    WasUntrack =>
        /\ Len(tracked_anime) = Cardinality(KeptAt(UntrackedName, before.list))
        /\ \A j \in 1..Len(tracked_anime) :
              tracked_anime[j] = before.list[NthKept(UntrackedName, before.list, j)]
        /\ tracked_file.exists
        /\ tracked_file.text = JoinLines(tracked_anime)
        /\ message = "stopped"

\* a step that is an untrack leaves the download folder, the client and its
\* torrents alone and submits nothing
C11_Frame ==
    (/\ WasUntrack'
     /\ last_op' # last_op \/ before' # before \/ tracked_anime' # tracked_anime) =>
        /\ downloaded' = downloaded
        /\ torrents' = torrents
        /\ qb_client' = qb_client
        /\ submitted' = 0

(***************************************************************************)
(* C11: an untrack of series name s (the card's button, or a click on a    *)
(* title whose series is tracked) removes exactly the entries of the list  *)
(* that contain s, keeps the other entries in their order, saves the       *)
(* resulting list to the tracked file, and leaves the downloaded files,    *)
(* the client and its torrents as they were, submitting nothing.           *)
(***************************************************************************)
C11_UntrackRemovesMatching == []C11_Removed /\ [][C11_Frame]_vars

\* an untrack removed an entry and kept another while a downloaded file and
\* a torrent were there
C11_Witness ==
    /\ WasUntrack
    /\ Len(tracked_anime) >= 1
    /\ Len(before.list) > Len(tracked_anime)
    /\ downloaded # {}
    /\ torrents # {}

(***************************************************************************)
(* TrackedAnimeCard.update_countdown: the time until the next episode of   *)
(* the card's series, from the weekly schedule and the current UTC time    *)
(***************************************************************************)
\* shows the model lets a fetched schedule hold
MaxShows == 2

\* the series of the card
CardSeries == <<"X">>

Weekdays == <<"monday", "tuesday", "wednesday", "thursday", "friday",
              "saturday", "sunday">>

\* [...].index(day.lower()): 0 = Monday, 6 = Sunday
DayIndex(day) == (CHOOSE i \in 1..7 : Weekdays[i] = day) - 1

Digit(c) ==
    CASE c = "0" -> 0 [] c = "1" -> 1 [] c = "2" -> 2 [] c = "3" -> 3
      [] c = "4" -> 4 [] c = "5" -> 5 [] c = "6" -> 6 [] c = "7" -> 7
      [] c = "8" -> 8 [] c = "9" -> 9

\* datetime.strptime(time_str, "%H:%M"), as seconds into the day
ParseTime(time_str) ==
    (10 * Digit(time_str[1]) + Digit(time_str[2])) * 3600
        + (10 * Digit(time_str[4]) + Digit(time_str[5])) * 60

\* the time of day of an instant, in seconds
SecondsOfDay(t) == t.hour * 3600 + t.minute * 60 + t.second

\* the instants update_countdown runs at
Instants ==
    { Instant(month_days, day, weekday, hour, 0, second) :
        month_days \in {30, 31}, day \in {1, 24, 25, 30},
        weekday \in {0, 1, 3, 6}, hour \in {9, 11}, second \in {0, 30} }

\* one show of the schedule: schedule_data["schedule"][day] holds
\* {"time": time, "title": title}
Shows ==
    [day : {"monday", "tuesday"},
     time : {<<"1", "0", ":", "0", "0">>, <<"0", "8", ":", "3", "0">>},
     title : {<<"X", "2">>, <<"Y">>}]

\* the shows of a schedule, in the order the two loops visit them
Schedules == UNION {[1..n -> Shows] : n \in 0..MaxShows}

\* the positions of the shows with: self.series_name in show['title']
Matching(series_name, schedule) ==
    {i \in 1..Len(schedule) : Contains(series_name, schedule[i].title)}

\* days_until = day_index - current_day_index; if days_until <= 0: += 7
DaysUntil(day_index, current_day_index) ==
    LET days_until == day_index - current_day_index
    IN  IF days_until <= 0 THEN days_until + 7 ELSE days_until

\* anime_time.replace(..., day=current_time.day + days_until) raises
\* ValueError for a day the month does not have
ReplaceRaises(show, t) ==
    t.day + DaysUntil(DayIndex(show.day), t.weekday) > t.month_days

\* anime_time - current_time in seconds, anime_time in the current month
TimeUntil(show, t) ==
    DaysUntil(DayIndex(show.day), t.weekday) * 86400
        + ParseTime(show.time) - SecondsOfDay(t)

\* the label texts; days = 0 stands for a text without the "{days}d " part
Unavailable == [text |-> "Schedule unavailable", days |-> 0, hours |-> 0, minutes |-> 0]
NotFound == [text |-> "No scheduled episodes found", days |-> 0, hours |-> 0, minutes |-> 0]

\* "Next episode in: " [f"{days}d "] f"{hours}h {minutes}m" of a timedelta
NextEpisodeIn(total_seconds) ==
    [text |-> "Next episode in: ",
     days |-> total_seconds \div 86400,
     hours |-> (total_seconds % 86400) \div 3600,
     minutes |-> (total_seconds % 3600) \div 60]

\* the text update_countdown sets
Countdown(series_name, data, t) ==
    IF ~data.ok THEN Unavailable
    ELSE LET matching == Matching(series_name, data.schedule)
         IN  IF \E i \in matching : ReplaceRaises(data.schedule[i], t)
             THEN Unavailable
             ELSE IF matching = {} THEN NotFound
             ELSE NextEpisodeIn(Min({TimeUntil(data.schedule[i], t) : i \in matching}))

CountdownInit ==
    /\ utcnow \in Instants
    /\ schedule_data = NoSchedule
    /\ countdown_label = NoLabel
    /\ TitleIdle
    /\ LimiterIdle
    /\ FetchIdle
    /\ TrackIdle
    /\ DownloadIdle
    /\ SettingsIdle
    /\ LookupIdle
    /\ SessionIdle

\* update_countdown, on construction of the card's back and on its timer
UpdateCountdown(data) ==
    /\ schedule_data' = data
    /\ countdown_label' = Countdown(CardSeries, data, utcnow)
    /\ UNCHANGED <<utcnow, exceptCountdown>>

CountdownNext ==
    \E data \in {NoSchedule} \cup {[ok |-> TRUE, schedule |-> s] : s \in Schedules} :
        UpdateCountdown(data)

CountdownSpec == CountdownInit /\ [][CountdownNext]_vars

\* the shows of the fetched schedule that match the card's series
CardShows == Matching(CardSeries, schedule_data.schedule)

\* show i is the only matching show and is on the weekday of utcnow
OnlyShowToday(i) ==
    /\ schedule_data.ok
    /\ CardShows = {i}
    /\ DayIndex(schedule_data.schedule[i].day) = utcnow.weekday

(***************************************************************************)
(* C12 (as claimed): when the only matching show is on the current UTC     *)
(* weekday and the current time of day is earlier than the show's time,    *)
(* the countdown is the time remaining until that same-day broadcast       *)
(* (Monday 10:00 seen from Monday 09:00: 1 hour).                          *)
(***************************************************************************)
C12_SameDayBeforeBroadcast ==
    \A i \in 1..Len(schedule_data.schedule) :
        LET time == ParseTime(schedule_data.schedule[i].time)
        IN  OnlyShowToday(i) /\ SecondsOfDay(utcnow) < time =>
                countdown_label = NextEpisodeIn(time - SecondsOfDay(utcnow))

(***************************************************************************)
(* C13 (as claimed): when the only matching show is on the current UTC     *)
(* weekday and the current time of day is later than the show's time, the  *)
(* next occurrence is 7 days after today's broadcast time (Monday 10:00    *)
(* seen from Monday 11:00: 6 days 23 hours 0 minutes).                     *)
(***************************************************************************)
C13_SameDayAfterBroadcast ==
    \A i \in 1..Len(schedule_data.schedule) :
        LET time == ParseTime(schedule_data.schedule[i].time)
        IN  OnlyShowToday(i) /\ SecondsOfDay(utcnow) > time =>
                countdown_label = NextEpisodeIn(7 * 86400 - (SecondsOfDay(utcnow) - time))

\* the seconds from t to the first broadcast of a show strictly after t
NextOccurrence(show, t) ==
    LET same_week == ((DayIndex(show.day) - t.weekday) % 7) * 86400
                        + ParseTime(show.time) - SecondsOfDay(t)
    IN  IF same_week > 0 THEN same_week ELSE same_week + 7 * 86400

(***************************************************************************)
(* C14 (as claimed): with a schedule at hand, the countdown of a series    *)
(* with matching shows is the time to the earliest next occurrence, after  *)
(* the current instant, over all its matching shows, split into days,      *)
(* hours and minutes; a series without matching shows gets "No scheduled   *)
(* episodes found", not "Schedule unavailable".                            *)
(***************************************************************************)
C14_EarliestNextOccurrence ==
    schedule_data.ok =>
        countdown_label =
            IF CardShows = {} THEN NotFound
            ELSE NextEpisodeIn(Min({NextOccurrence(schedule_data.schedule[i], utcnow) :
                                        i \in CardShows}))

\* what holds of the code: the label is never left unset, a schedule without
\* matching shows gives NotFound, and a countdown is that of a later instant
CountdownShown ==
    countdown_label # NoLabel \/ schedule_data = NoSchedule =>
        /\ (schedule_data.ok /\ CardShows = {} => countdown_label = NotFound)
        /\ (~schedule_data.ok /\ countdown_label # NoLabel => countdown_label = Unavailable)
        /\ countdown_label.text = "Next episode in: " =>
              countdown_label.days * 1440 + countdown_label.hours * 60
                  + countdown_label.minutes > 0 \/ utcnow.second > 0

(***************************************************************************)
(* The downloads view and the download client: setup_qbittorrent,          *)
(* add_torrent, the DownloadCards' torrent listings and the two            *)
(* delete_episode handlers                                                 *)
(***************************************************************************)
\* the file names of the episodes; the first is a substring of the second
DownloadFiles == {<<"a">>, <<"b", "a">>}

\* the torrent that downloads a file into the download folder
TorrentOf(file) == [hash |-> <<"#">> \o file, content_path |-> <<"/">> \o file]

\* the file a torrent's content_path names
FileOf(torrent) == Tail(torrent.content_path)

\* the torrents with: filename in torrent.content_path
Matches(filename, listed) ==
    {torrent \in listed : Contains(filename, torrent.content_path)}

\* a request through the handle goes through; it raises on a handle whose
\* log-in failed ("stale") or whose client has gone since ("lost")
Reaches(client) == client = "connected"

\* the cards display_downloads leaves: the first card's setup_front raises
\* on a handle that does not reach the client
ShownCards(files, client) ==
    IF client # "none" /\ ~Reaches(client) /\ files # {} THEN {} ELSE files

\* the record of an operation on filename, before it acts
DlOp(name, filename) ==
    [NoDlOp EXCEPT !.name = name, !.filename = filename, !.client = qb_client,
                   !.file_was = filename \in folder_files,
                   !.matched = IF filename = <<>> THEN {}
                               ELSE Matches(filename, qb_torrents)]

DownloadInit ==
    /\ DownloadIdle
    /\ TitleIdle
    /\ LimiterIdle
    /\ FetchIdle
    /\ TrackIdle
    /\ CountdownIdle
    /\ SettingsIdle
    /\ LookupIdle
    /\ SessionIdle

\* AnimeManager.setup_qbittorrent: the handle is assigned before the log-in
SetupQbittorrent(ok) ==
    /\ qb_client' = IF ok THEN "connected" ELSE "stale"
    /\ dl_op' = [DlOp("setup_qbittorrent", <<>>) EXCEPT !.result = ok]
    /\ UNCHANGED <<folder_files, qb_torrents, download_cards, exceptDownload>>

\* AnimeManager.add_torrent for the link of a file; accepted: torrents_add
\* goes through
AddTorrentLink(file, accepted) ==
    /\ accepted => Reaches(qb_client)
    /\ Reaches(qb_client) => accepted
    /\ qb_torrents' = IF accepted THEN qb_torrents \cup {TorrentOf(file)} ELSE qb_torrents
    /\ dl_op' = [DlOp("add_torrent", file) EXCEPT !.result = AddTorrent(qb_client, accepted)]
    /\ UNCHANGED <<qb_client, folder_files, download_cards, exceptDownload>>

\* the client writes the file of a torrent into the download folder
FileWritten(torrent) ==
    /\ torrent \in qb_torrents
    /\ FileOf(torrent) \notin folder_files
    /\ folder_files' = folder_files \cup {FileOf(torrent)}
    /\ UNCHANGED <<qb_client, qb_torrents, download_cards, dl_op, exceptDownload>>

\* a file leaves the download folder outside the program
FileVanishes(file) ==
    /\ file \in folder_files
    /\ folder_files' = folder_files \ {file}
    /\ UNCHANGED <<qb_client, qb_torrents, download_cards, dl_op, exceptDownload>>

\* a torrent is removed in the client's own interface, its file kept
TorrentGone(torrent) ==
    /\ torrent \in qb_torrents
    /\ qb_torrents' = qb_torrents \ {torrent}
    /\ UNCHANGED <<qb_client, folder_files, download_cards, dl_op, exceptDownload>>

\* the client stops answering the handle
ClientLost ==
    /\ qb_client = "connected"
    /\ qb_client' = "lost"
    /\ UNCHANGED <<folder_files, qb_torrents, download_cards, dl_op, exceptDownload>>

\* how the torrents_info() of a listing ends: not called without a handle
Listing(client) ==
    IF client = "none" THEN "none" ELSE IF Reaches(client) THEN "ok" ELSE "raised"

\* MainWindow.update_downloads_list: display_downloads builds a card for
\* each file and each card's setup_front lists the torrents; the exception
\* of a listing ends the display and is printed
DisplayDownloads ==
    /\ download_cards' = ShownCards(folder_files, qb_client)
    /\ dl_op' = [DlOp("display_downloads", <<>>) EXCEPT
                    !.listing = IF folder_files = {} THEN "none" ELSE Listing(qb_client)]
    /\ UNCHANGED <<qb_client, folder_files, qb_torrents, exceptDownload>>

\* DownloadCard.update_progress, on the card's timer
UpdateProgress(filename) ==
    /\ filename \in download_cards
    /\ dl_op' = [DlOp("update_progress", filename) EXCEPT
                    !.listing = Listing(qb_client),
                    !.raised = (Listing(qb_client) = "raised")]
    /\ UNCHANGED <<qb_client, folder_files, qb_torrents, download_cards, exceptDownload>>

\* DownloadCard.delete_episode, the handler of the card's delete button;
\* reply: the confirmation is answered with Yes
DeleteEpisode(filename, reply) ==
    LET delete == DlOp("DownloadCard.delete_episode", filename)
        matched == Matches(filename, qb_torrents)
        removed == folder_files \ {filename}
    IN  /\ filename \in download_cards
        /\ UNCHANGED <<qb_client, exceptDownload>>
        /\ IF ~reply
           THEN /\ dl_op' = [delete EXCEPT !.confirmed = FALSE]
                /\ UNCHANGED <<folder_files, qb_torrents, download_cards>>
           ELSE IF filename \notin folder_files
           THEN \* os.remove raises FileNotFoundError
                /\ dl_op' = [delete EXCEPT !.error = TRUE]
                /\ UNCHANGED <<folder_files, qb_torrents, download_cards>>
           ELSE IF qb_client = "none"
           THEN /\ folder_files' = removed
                /\ download_cards' = ShownCards(removed, qb_client)
                /\ dl_op' = [delete EXCEPT !.file_removed = TRUE]
                /\ UNCHANGED qb_torrents
           ELSE IF ~Reaches(qb_client)
           THEN \* torrents_info() raises after the file was removed
                /\ folder_files' = removed
                /\ dl_op' = [delete EXCEPT !.file_removed = TRUE,
                                           !.listing = "raised", !.error = TRUE]
                /\ UNCHANGED <<qb_torrents, download_cards>>
           ELSE /\ folder_files' = removed \ {FileOf(torrent) : torrent \in matched}
                /\ qb_torrents' = qb_torrents \ matched
                /\ download_cards' = ShownCards(folder_files', qb_client)
                /\ dl_op' = [delete EXCEPT !.file_removed = TRUE, !.listing = "ok",
                                !.requests = {torrent.hash : torrent \in matched}]

\* MainWindow.delete_episode(filename); first: the first matching torrent of
\* the listing
WindowDeleteEpisode(filename, first) ==
    LET delete == DlOp("MainWindow.delete_episode", filename)
        matched == Matches(filename, qb_torrents)
        hit == IF qb_client = "none" \/ matched = {} THEN {} ELSE {first}
        kept == (folder_files \ {FileOf(torrent) : torrent \in hit}) \ {filename}
    IN  /\ matched # {} => first \in matched
        /\ matched = {} => first = TorrentOf(filename)
        /\ UNCHANGED <<qb_client, exceptDownload>>
        /\ IF Listing(qb_client) = "raised"
           THEN /\ dl_op' = [delete EXCEPT !.listing = "raised", !.error = TRUE]
                /\ UNCHANGED <<folder_files, qb_torrents, download_cards>>
           ELSE /\ qb_torrents' = qb_torrents \ hit
                /\ folder_files' = kept
                /\ download_cards' = ShownCards(kept, qb_client)
                /\ dl_op' = [delete EXCEPT
                                !.file_removed = (filename \in folder_files),
                                !.listing = Listing(qb_client),
                                !.requests = {torrent.hash : torrent \in hit}]

DownloadNext ==
    \/ \E ok \in BOOLEAN : SetupQbittorrent(ok)
    \/ \E file \in DownloadFiles, accepted \in BOOLEAN : AddTorrentLink(file, accepted)
    \/ \E torrent \in qb_torrents : FileWritten(torrent)
    \/ \E file \in folder_files : FileVanishes(file)
    \/ \E torrent \in qb_torrents : TorrentGone(torrent)
    \/ ClientLost
    \/ DisplayDownloads
    \/ \E filename \in download_cards : UpdateProgress(filename)
    \/ \E filename \in download_cards, reply \in BOOLEAN : DeleteEpisode(filename, reply)
    \/ \E filename \in DownloadFiles, first \in {TorrentOf(f) : f \in DownloadFiles} :
          WindowDeleteEpisode(filename, first)

DownloadSpec == DownloadInit /\ [][DownloadNext]_vars

\* the last operation was a delete the user confirmed
WasDelete ==
    /\ dl_op.name \in {"DownloadCard.delete_episode", "MainWindow.delete_episode"}
    /\ dl_op.confirmed

(***************************************************************************)
(* C15 (as claimed): a delete of a file that is in the download folder and *)
(* has no matching torrent in the client removes the file, sends no        *)
(* removal request and reports no error, with or without a client handle   *)
(* and whether or not the client answers.                                  *)
(***************************************************************************)
C15_DeleteWithoutTorrent ==
    WasDelete /\ dl_op.file_was /\ dl_op.matched = {} =>
        /\ dl_op.file_removed
        /\ dl_op.requests = {}
        /\ ~dl_op.error

(***************************************************************************)
(* C16 (as claimed): a delete for a file name with a matching torrent in   *)
(* the connected client removes a matching torrent and reports no error,   *)
(* also when the file is already gone; when the file is there it is        *)
(* removed too.                                                            *)
(***************************************************************************)
C16_DeleteRemovesTorrent ==
    WasDelete /\ dl_op.client = "connected" /\ dl_op.matched # {} =>
        /\ dl_op.requests \cap {torrent.hash : torrent \in dl_op.matched} # {}
        /\ ~dl_op.error
        /\ dl_op.file_was => dl_op.file_removed

(***************************************************************************)
(* C20 (as claimed): with no session (no connect yet, or the latest        *)
(* setup_qbittorrent failed) setup_qbittorrent and add_torrent return      *)
(* False without raising, and no torrent listing (of a card's setup_front, *)
(* update_progress or delete_episode) raises.                              *)
(***************************************************************************)
C20_NoSessionFailsGracefully ==
    dl_op.client \in {"none", "stale"} =>
        /\ ~dl_op.raised
        /\ dl_op.listing # "raised"
        /\ dl_op.name = "add_torrent" => ~dl_op.result

\* what holds of the code: without a handle nothing is listed and nothing
\* raises, add_torrent fails on every handle that does not reach the client,
\* and a delete by the window's handler with the file gone still removes
\* a matching torrent
DownloadsAsCoded ==
    /\ dl_op.client = "none" =>
          ~dl_op.raised /\ dl_op.listing = "none" /\ dl_op.requests = {}
    /\ dl_op.name = "add_torrent" /\ dl_op.client # "connected" => ~dl_op.result
    /\ (dl_op.name = "MainWindow.delete_episode" /\ dl_op.client = "connected"
            /\ dl_op.matched # {}) =>
          ~dl_op.error /\ dl_op.requests # {}

(***************************************************************************)
(* AnimeManager.load_settings and save_settings: the settings dict and its *)
(* JSON file                                                               *)
(***************************************************************************)
\* two of the five keys of the settings, in the order the dict holds them
SettingKeys == <<"download_folder", "qb_host">>

\* the texts of a setting: empty, plain, and with the characters JSON escapes
SettingValues == {<<>>, <<"a">>, <<"\"">>, <<"a", "\\">>}

\* the dicts save_settings can be given
Dicts ==
    UNION {[keys -> SettingValues] : keys \in SUBSET {SettingKeys[i] : i \in 1..Len(SettingKeys)}}

\* what load_settings returns without a settings file
DefaultSettings ==
    [key \in {"download_folder", "qb_host"} |->
        IF key = "download_folder" THEN <<"c", "w", "d">> ELSE <<"h">>]

\* the inside of a JSON string: quote and backslash are escaped
RECURSIVE Escaped(_)
Escaped(value) ==
    IF value = <<>> THEN <<>>
    ELSE (IF Head(value) \in {"\"", "\\"} THEN <<"\\", Head(value)>> ELSE <<Head(value)>>)
            \o Escaped(Tail(value))

JsonString(value) == <<"\"">> \o Escaped(value) \o <<"\"">>

\* "key": "value" for each of keys, separated by ", "; a key is one symbol
RECURSIVE JsonMembers(_, _)
JsonMembers(dict, keys) ==
    IF keys = <<>> THEN <<>>
    ELSE JsonString(<<Head(keys)>>) \o <<":", " ">> \o JsonString(dict[Head(keys)])
            \o (IF Tail(keys) = <<>> THEN <<>> ELSE <<",", " ">>)
            \o JsonMembers(dict, Tail(keys))

\* json.dump(settings, f): the text written
JsonDump(dict) ==
    LET Has(key) == key \in DOMAIN dict
    IN  <<"{">> \o JsonMembers(dict, SelectSeq(SettingKeys, Has)) \o <<"}">>

\* the string whose first character is at text[i], and the position after
\* its closing quote
RECURSIVE ReadString(_, _, _)
ReadString(text, i, read) ==
    IF text[i] = "\"" THEN [value |-> read, next |-> i + 1]
    ELSE IF text[i] = "\\" THEN ReadString(text, i + 2, Append(read, text[i + 1]))
    ELSE ReadString(text, i + 1, Append(read, text[i]))

\* the members of an object from text[i] on, added to dict
RECURSIVE ReadMembers(_, _, _)
ReadMembers(text, i, dict) ==
    IF text[i] = "}" THEN dict
    ELSE IF text[i] \in {",", " "} THEN ReadMembers(text, i + 1, dict)
    ELSE LET key == ReadString(text, i + 1, <<>>)
             value == ReadString(text, key.next + 3, <<>>)
         IN  ReadMembers(text, value.next,
                         [k \in DOMAIN dict \cup {key.value[1]} |->
                             IF k = key.value[1] THEN value.value ELSE dict[k]])

\* json.load(f) of an object of strings
JsonLoad(text) == ReadMembers(text, 2, EmptyDict)

\* load_settings
LoadSettings(file) ==
    IF file.exists THEN JsonLoad(file.text) ELSE DefaultSettings

SettingsInit ==
    /\ settings_file \in {NoSettingsFile} \cup {SettingsFile(JsonDump(dict)) : dict \in Dicts}
    /\ settings = LoadSettings(settings_file)
    /\ settings_op = NoSettingsOp
    /\ TitleIdle
    /\ LimiterIdle
    /\ FetchIdle
    /\ TrackIdle
    /\ CountdownIdle
    /\ DownloadIdle
    /\ LookupIdle
    /\ SessionIdle

\* a plausible slip: the new settings are merged into the old ones
SavedSettingsMerged(old, new) ==
    [key \in DOMAIN old \cup DOMAIN new |->
        IF key \in DOMAIN new THEN new[key] ELSE old[key]]

\* self.settings = settings
SavedSettings(old, new) == new

\* AnimeManager.save_settings(new)
SaveSettings(new) ==
    /\ settings_file' = SettingsFile(JsonDump(new))
    /\ settings' = SavedSettings(settings, new)
    /\ settings_op' = [name |-> "save_settings", arg |-> new, old |-> settings]
    /\ UNCHANGED exceptSettings

\* the dicts MainWindow.save_settings builds from the form: every key is set
FormDicts == [{SettingKeys[i] : i \in 1..Len(SettingKeys)} -> SettingValues]

\* new_settings["qb_host"] != self.manager.settings["qb_host"] (the same test
\* is made on qb_username and qb_password)
ClientSettingsDiffer(new_settings, held) == new_settings["qb_host"] # held["qb_host"]

\* MainWindow.save_settings: self.manager.save_settings(new_settings), then the
\* test against self.manager.settings, then setup_qbittorrent if it differs
WindowSaveSettings(new_settings) ==
    /\ settings_file' = SettingsFile(JsonDump(new_settings))
    /\ settings' = SavedSettings(settings, new_settings)
    /\ settings_op' = [name |-> "save_settings", arg |-> new_settings, old |-> settings]
    /\ reconnect_op' = [name |-> "save_settings",
                        changed |-> \/ "qb_host" \notin DOMAIN settings
                                    \/ settings["qb_host"] # new_settings["qb_host"],
                        tried |-> ClientSettingsDiffer(new_settings, settings')]
    /\ UNCHANGED exceptReconnect

SettingsNext ==
    \/ \E new \in Dicts : SaveSettings(new)
    \/ \E new_settings \in FormDicts : WindowSaveSettings(new_settings)

SettingsSpec == SettingsInit /\ [][SettingsNext]_vars

(***************************************************************************)
(* C17: after save_settings(s) the settings in memory are exactly s, with  *)
(* the keys of s and no others, and the settings file holds the JSON text  *)
(* of s, which loads as s.                                                 *)
(***************************************************************************)
C17_SaveOverwrites ==
    settings_op.name = "save_settings" =>
        /\ DOMAIN settings = DOMAIN settings_op.arg
        /\ \A key \in DOMAIN settings : settings[key] = settings_op.arg[key]
        /\ settings_file.exists
        /\ DOMAIN JsonLoad(settings_file.text) = DOMAIN settings_op.arg
        /\ \A key \in DOMAIN settings_op.arg :
              JsonLoad(settings_file.text)[key] = settings_op.arg[key]

\* a save that dropped a key of the settings before it and stored a text
\* with a quote in it
C17_Witness ==
    /\ settings_op.name = "save_settings"
    /\ DOMAIN settings_op.old \ DOMAIN settings_op.arg # {}
    /\ \E key \in DOMAIN settings_op.arg : settings_op.arg[key] = <<"\"">>
    /\ settings = settings_op.arg

(***************************************************************************)
(* The lookups of a series at the search API: the status (the tracked      *)
(* card's check_series_status, the main window's cached one) and the       *)
(* description (AnimeInfoLoader.run)                                       *)
(***************************************************************************)
\* status requests per series the model follows
MaxLookups == 2

\* how one search request ends: requests.get raises, it times out, the
\* status code is not 200, the body has no "data", "data" is empty, the
\* first result has the field as null, lacks the field, or has it
LookupOutcomes ==
    {"exception", "timeout", "non200", "malformed", "empty", "null", "missing", "ok"}

\* the exception an outcome raises inside the try (None has no lower())
LookupError(outcome) ==
    CASE outcome = "exception" -> "ConnectionError"
      [] outcome = "timeout"   -> "Timeout"
      [] outcome = "malformed" -> "KeyError"
      [] outcome = "null"      -> "AttributeError"
      [] OTHER                 -> "none"

\* the "status" texts of a first result
StatusTexts ==
    { <<"F", "i", "n", "i", "s", "h", "e", "d", " ", "A", "i", "r", "i", "n", "g">>,
      <<"C", "u", "r", "r", "e", "n", "t", "l", "y", " ", "A", "i", "r", "i", "n", "g">>,
      <<"C", "o", "m", "p", "l", "e", "t", "e", "d">>,
      <<"N", "o", "t", " ", "y", "e", "t", " ", "a", "i", "r", "e", "d">> }

\* the "synopsis" texts of a first result
SynopsisTexts == { <<"S">>, <<>> }

\* str.lower() on the letters of the status texts
LowerChar(c) ==
    CASE c = "A" -> "a" [] c = "C" -> "c" [] c = "F" -> "f" [] c = "N" -> "n"
      [] OTHER -> c

Lower(s) == [i \in 1..Len(s) |-> LowerChar(s[i])]

Finished == <<"f", "i", "n", "i", "s", "h", "e", "d">>
Completed == <<"c", "o", "m", "p", "l", "e", "t", "e", "d">>

\* a plausible slip: the status text is not lower-cased
IsEndedCaseSensitive(status) ==
    Contains(Finished, status) \/ Contains(Completed, status)

\* status = anime.get("status", "").lower();
\* "finished" in status or "completed" in status
IsEnded(status) ==
    Contains(Finished, Lower(status)) \/ Contains(Completed, Lower(status))

\* what a status lookup that sends a request returns
StatusOf(outcome, text) ==
    IF outcome \in {"ok", "missing"} /\ IsEnded(text) THEN "Ended" ELSE "Ongoing"

\* what AnimeInfoLoader.run emits
DescriptionOf(outcome, text) ==
    IF LookupError(outcome) # "none"
    THEN <<"Failed to load description: ", LookupError(outcome)>>
    ELSE IF outcome = "ok" THEN <<"synopsis">> \o text
    ELSE <<"No description available.">>

\* the texts an outcome can carry
TextsOf(kind, outcome) ==
    IF outcome # "ok" THEN {<<>>}
    ELSE IF kind = "status" THEN StatusTexts ELSE SynopsisTexts

LookupInit ==
    /\ LookupIdle
    /\ TitleIdle
    /\ LimiterIdle
    /\ FetchIdle
    /\ TrackIdle
    /\ CountdownIdle
    /\ DownloadIdle
    /\ SettingsIdle
    /\ SessionIdle


\* TrackedAnimeCard.check_series_status of the card of series, as
\* update_status and setup_back call it
CheckSeriesStatus(series, outcome, text) ==
    /\ status_requests[series] < MaxLookups
    /\ text \in TextsOf("status", outcome)
    /\ status_requests' = [status_requests EXCEPT ![series] = @ + 1]
    /\ status_seen' = [status_seen EXCEPT ![series] = @ \cup {StatusOf(outcome, text)}]
    /\ lookup_op' = [kind |-> "status", via |-> "card", series |-> series,
                     outcome |-> outcome, text |-> text, requests |-> 1,
                     result |-> <<StatusOf(outcome, text)>>]
    /\ UNCHANGED <<series_status_cache, exceptLookup>>

\* MainWindow.check_series_status(series): an answer from the cache, or a
\* request whose result is stored when a first result was there
WindowCheckSeriesStatus(series, outcome, text) ==
    IF series \in DOMAIN series_status_cache
    THEN /\ outcome = "ok" /\ text = <<>>
         /\ status_seen' = [status_seen EXCEPT ![series] = @ \cup {series_status_cache[series]}]
         /\ lookup_op' = [kind |-> "status", via |-> "window", series |-> series,
                          outcome |-> "cached", text |-> <<>>, requests |-> 0,
                          result |-> <<series_status_cache[series]>>]
         /\ UNCHANGED <<series_status_cache, status_requests, exceptLookup>>
    ELSE /\ status_requests[series] < MaxLookups
         /\ text \in TextsOf("status", outcome)
         /\ status_requests' = [status_requests EXCEPT ![series] = @ + 1]
         /\ status_seen' = [status_seen EXCEPT ![series] = @ \cup {StatusOf(outcome, text)}]
         /\ series_status_cache' =
                IF outcome \in {"ok", "missing"}
                THEN [s \in DOMAIN series_status_cache \cup {series} |->
                        IF s = series THEN StatusOf(outcome, text)
                        ELSE series_status_cache[s]]
                ELSE series_status_cache
         /\ lookup_op' = [kind |-> "status", via |-> "window", series |-> series,
                          outcome |-> outcome, text |-> text, requests |-> 1,
                          result |-> <<StatusOf(outcome, text)>>]
         /\ UNCHANGED exceptLookup

\* AnimeInfoLoader.run for a title of series
LoadInfo(series, outcome, text) ==
    /\ outcome # "null"
    /\ text \in TextsOf("description", outcome)
    /\ lookup_op' = [kind |-> "description", via |-> "loader", series |-> series,
                     outcome |-> outcome, text |-> text, requests |-> 1,
                     result |-> DescriptionOf(outcome, text)]
    /\ UNCHANGED <<series_status_cache, status_requests, status_seen, exceptLookup>>

LookupNext ==
    \E series \in LookupSeries, outcome \in LookupOutcomes,
       text \in StatusTexts \cup SynopsisTexts :
        \/ CheckSeriesStatus(series, outcome, text)
        \/ WindowCheckSeriesStatus(series, outcome, text)
        \/ LoadInfo(series, outcome, text)

LookupSpec == LookupInit /\ [][LookupNext]_vars

(***************************************************************************)
(* C18 (as claimed): the status of a series is requested from the API at   *)
(* most once in a run, and every lookup of the series returns the same     *)
(* value.                                                                  *)
(***************************************************************************)
C18_StatusRequestedOnce ==
    \A series \in LookupSeries :
        /\ status_requests[series] <= 1
        /\ Cardinality(status_seen[series]) <= 1

\* what holds of the code: the main window's lookup answers from its cache,
\* without a request, once a lookup of the series found a first result
StatusCacheAsCoded ==
    /\ \A series \in DOMAIN series_status_cache :
          series_status_cache[series] \in status_seen[series]
    /\ lookup_op.via = "window" /\ lookup_op.outcome = "cached" =>
          lookup_op.requests = 0 /\ lookup_op.series \in DOMAIN series_status_cache

\* the last lookup was one of the single-attempt lookups: the tracked
\* card's status lookup or the description lookup
SingleLookup == lookup_op.via \in {"card", "loader"}

\* the lower-cased status text of the last lookup's first result names an end
TextEnded ==
    \/ Contains(Finished, Lower(lookup_op.text))
    \/ Contains(Completed, Lower(lookup_op.text))

EndpointInit ==
    /\ LimiterInit
    /\ lookup_sent = NoRequest
    /\ MainIdle
    /\ RefreshIdle
    /\ ReconnectIdle
    /\ EpisodeIdle
    /\ ReconnectIdle

\* AnimeInfoLoader.run: requests.get(".../v4/anime", ...) on the loader's thread
AnimeInfoLoaderRun ==
    /\ lookup_sent' = [kind |-> "description", at |-> now]
    /\ UNCHANGED <<limiterVars, exceptEndpoint>>

\* TrackedAnimeCard.check_series_status: requests.get(".../v4/anime", ...)
CardCheckSeriesStatus ==
    /\ lookup_sent' = [kind |-> "status", at |-> now]
    /\ UNCHANGED <<limiterVars, exceptEndpoint>>

EndpointNext ==
    \/ LimiterNext
    \/ AnimeInfoLoaderRun
    \/ CardCheckSeriesStatus

EndpointSpec == EndpointInit /\ [][EndpointNext]_vars

\* the distance between two points in time
Apart(a, b) == IF a >= b THEN a - b ELSE b - a

(***************************************************************************)
(* C21: every request to the search endpoint is preceded by a wait() on    *)
(* the shared limiter, so the latest lookup request and the latest poster  *)
(* search (sent as wait() returns) are at least 1/calls_per_second apart.  *)
(***************************************************************************)
C21_EveryRequestLimited ==
    (lookup_sent.kind # "none" /\ returns # <<>>)
        => Apart(lookup_sent.at, returns[Len(returns)]) >= Interval

(***************************************************************************)
(* The main flow.  Qt delivers timer events from the event loop, so a      *)
(* callback starts only when the main flow is in the loop, and a call the  *)
(* main flow makes keeps it until the call returns.  ImageLoader is a      *)
(* QThread: its fetch runs beside the main flow.                           *)
(***************************************************************************)
MaxCards == 2
MaxFirings == 1

MainInit ==
    /\ main_pc = "idle"
    /\ cards_left = 0
    /\ loading = 0
    /\ completed = [timer \in MainTimers |-> 0]
    /\ during = {}
    /\ TitleIdle
    /\ LimiterIdle
    /\ FetchIdle
    /\ TrackIdle
    /\ CountdownIdle
    /\ DownloadIdle
    /\ SettingsIdle
    /\ LookupIdle
    /\ EndpointIdle
    /\ RefreshIdle
    /\ EpisodeIdle
    /\ ReconnectIdle

\* update_tracked_list -> display_tracked_anime: a TrackedAnimeCard per series;
\* the first card's setup_front calls update_status -> check_series_status
DisplayTrackedAnime(n) ==
    /\ main_pc = "idle"
    /\ loading + n <= MaxCards
    /\ cards_left' = n
    /\ main_pc' = IF n > 0 THEN "update_status" ELSE "idle"
    /\ UNCHANGED <<loading, completed, during, exceptMain>>

\* setup_front: check_series_status returns (an answer, an error or the
\* timeout); setup_back calls update_countdown -> fetch_schedule
StatusReturns ==
    /\ main_pc = "update_status"
    /\ main_pc' = "update_countdown"
    /\ UNCHANGED <<cards_left, loading, completed, during, exceptMain>>

\* fetch_schedule returns: inside setup_back check_series_status is next;
\* inside the countdown timer's callback the callback is over
ScheduleReturns ==
    /\ main_pc \in {"update_countdown", "countdown_timer"}
    /\ main_pc' = IF main_pc = "update_countdown" THEN "check_series_status" ELSE "idle"
    /\ UNCHANGED <<cards_left, loading, completed, during, exceptMain>>

\* setup_back: check_series_status returns; setup_ui starts the card's
\* ImageLoader and the next card is constructed
BackStatusReturns ==
    /\ main_pc = "check_series_status"
    /\ loading' = loading + 1
    /\ cards_left' = cards_left - 1
    /\ main_pc' = IF cards_left' > 0 THEN "update_status" ELSE "idle"
    /\ UNCHANGED <<completed, during, exceptMain>>

\* ImageLoader.run: fetch_anime_image returns on the loader's thread
ImageLoaderRun ==
    /\ loading > 0
    /\ loading' = loading - 1
    /\ UNCHANGED <<main_pc, cards_left, completed, during, exceptMain>>

\* a card's countdown_timer fires: update_countdown -> fetch_schedule
CountdownTimer ==
    /\ main_pc = "idle"
    /\ main_pc' = "countdown_timer"
    /\ UNCHANGED <<cards_left, loading, completed, during, exceptMain>>

\* one of the other timers fires and its callback runs to its end
TimerCallback(timer) ==
    /\ main_pc = "idle"
    /\ completed[timer] < MaxFirings
    /\ completed' = [completed EXCEPT ![timer] = @ + 1]
    /\ during' = IF loading > 0 THEN during \cup {timer} ELSE during
    /\ UNCHANGED <<main_pc, cards_left, loading, exceptMain>>

MainNext ==
    \/ \E n \in 0..MaxCards : DisplayTrackedAnime(n)
    \/ StatusReturns
    \/ ScheduleReturns
    \/ BackStatusReturns
    \/ ImageLoaderRun
    \/ CountdownTimer
    \/ \E timer \in MainTimers : TimerCallback(timer)

MainSpec == MainInit /\ [][MainNext]_vars

\* the network call the main flow is waiting on
MainWaitsOn ==
    CASE main_pc \in {"update_status", "check_series_status"} -> "metadata"
      [] main_pc \in {"update_countdown", "countdown_timer"} -> "schedule"
      [] OTHER -> "none"

(***************************************************************************)
(* C22: the main flow never waits on a metadata, image or schedule         *)
(* request, so that while such a request is stalled the timers' callbacks  *)
(* can still start and run to their end.                                   *)
(***************************************************************************)
C22_MainNeverWaits == MainWaitsOn = "none"

(***************************************************************************)
(* The refresh timers.  MainWindow.load_feed and load_schedule call        *)
(* self.manager.load_feed() and self.manager.load_schedule() inside a try  *)
(* block and rebuild the view after the call; the attribute lookup raises  *)
(* AttributeError when AnimeManager has no such method.                    *)
(***************************************************************************)
FeedTitles == {"a", "b", "c"}
MaxSchedules == 2

\* the methods class AnimeManager defines
ManagerMethods ==
    {"load_settings", "save_settings", "load_tracked_anime", "save_tracked_anime",
     "get_cached_image_path", "fetch_anime_image", "fetch_rss_feed", "fetch_schedule",
     "setup_qbittorrent", "add_torrent", "get_downloaded_files"}

\* self.manager.<name>: the attribute lookup succeeds
HasMethod(name) == name \in ManagerMethods

RefreshInit ==
    /\ feed_entries \in SUBSET FeedTitles
    /\ anime_tiles = {}
    /\ schedule_source \in 1..MaxSchedules
    /\ schedule_text = 0
    /\ refresh_op = NoRefresh
    /\ TitleIdle
    /\ LimiterIdle
    /\ FetchIdle
    /\ TrackIdle
    /\ CountdownIdle
    /\ DownloadIdle
    /\ SettingsIdle
    /\ LookupIdle
    /\ EndpointIdle
    /\ MainIdle
    /\ EpisodeIdle
    /\ ReconnectIdle

\* the feed gets or loses entries
FeedPublishes(entries) ==
    /\ entries # feed_entries
    /\ feed_entries' = entries
    /\ UNCHANGED <<anime_tiles, schedule_source, schedule_text, refresh_op, exceptRefresh>>

\* the schedule API publishes another schedule
SchedulePublishes(schedule) ==
    /\ schedule # schedule_source
    /\ schedule_source' = schedule
    /\ UNCHANGED <<feed_entries, anime_tiles, schedule_text, refresh_op, exceptRefresh>>

\* feed_timer -> MainWindow.load_feed: try: self.manager.load_feed();
\* self.display_anime_tiles()  except Exception: print(...)
LoadFeed ==
    /\ IF HasMethod("load_feed")
       THEN /\ anime_tiles' = feed_entries
            /\ refresh_op' = [name |-> "load_feed", fetched |-> TRUE,
                              rebuilt |-> TRUE, raised |-> FALSE]
       ELSE /\ refresh_op' = [name |-> "load_feed", fetched |-> FALSE,
                              rebuilt |-> FALSE, raised |-> TRUE]
            /\ UNCHANGED anime_tiles
    /\ UNCHANGED <<feed_entries, schedule_source, schedule_text, exceptRefresh>>

\* schedule_timer -> MainWindow.load_schedule: try: self.manager.load_schedule();
\* self.display_schedule()  except Exception: print(...)
LoadSchedule ==
    /\ IF HasMethod("load_schedule")
       THEN /\ schedule_text' = schedule_source
            /\ refresh_op' = [name |-> "load_schedule", fetched |-> TRUE,
                              rebuilt |-> TRUE, raised |-> FALSE]
       ELSE /\ refresh_op' = [name |-> "load_schedule", fetched |-> FALSE,
                              rebuilt |-> FALSE, raised |-> TRUE]
            /\ UNCHANGED schedule_text
    /\ UNCHANGED <<feed_entries, anime_tiles, schedule_source, exceptRefresh>>

\* resize_timer -> handle_resize_timeout -> display_anime_tiles: a card for
\* each entry of self.manager.fetch_rss_feed()
HandleResizeTimeout ==
    /\ anime_tiles' = feed_entries
    /\ refresh_op' = [name |-> "handle_resize_timeout", fetched |-> TRUE,
                      rebuilt |-> TRUE, raised |-> FALSE]
    /\ UNCHANGED <<feed_entries, schedule_source, schedule_text, exceptRefresh>>

RefreshNext ==
    \/ \E entries \in SUBSET FeedTitles : FeedPublishes(entries)
    \/ \E schedule \in 1..MaxSchedules : SchedulePublishes(schedule)
    \/ LoadFeed
    \/ LoadSchedule
    \/ HandleResizeTimeout

RefreshSpec == RefreshInit /\ [][RefreshNext]_vars

(***************************************************************************)
(* C23: a firing of the feed-refresh timer fetches the feed and leaves the *)
(* available-entries view showing the fetched entries, and a firing of the *)
(* schedule-refresh timer fetches the schedule and leaves the schedule     *)
(* view showing it.                                                        *)
(***************************************************************************)
C23_RefreshRebuilds ==
    /\ refresh_op.name = "load_feed"
          => refresh_op.fetched /\ refresh_op.rebuilt /\ anime_tiles = feed_entries
    /\ refresh_op.name = "load_schedule"
          => refresh_op.fetched /\ refresh_op.rebuilt /\ schedule_text = schedule_source

(***************************************************************************)
(* The order of the tracked view: display_tracked_anime places the cards   *)
(* in the order of sorted(series_set), Python's order of strings by code   *)
(* point.                                                                  *)
(***************************************************************************)
\* the characters of the model's alphabet by ascending code point
CodeOrder ==
    <<"\t", "\n", " ", "-", ".", "/",
      "0", "1", "2", "3", "4", "5", "6", "7", "8", "9", ":",
      "A", "B", "C", "D", "E", "F", "G", "H", "I", "J", "K", "L", "M",
      "N", "O", "P", "Q", "R", "S", "T", "U", "V", "W", "X", "Y", "Z",
      "[", "\\", "]", "_",
      "a", "b", "c", "d", "e", "f", "g", "h", "i", "j", "k", "l", "m",
      "n", "o", "p", "q", "r", "s", "t", "u", "v", "w", "x", "y", "z">>

\* ord(c)
Ord(c) == CHOOSE i \in 1..Len(CodeOrder) : CodeOrder[i] = c

\* a < b on strings
RECURSIVE StrLess(_, _)
StrLess(a, b) ==
    IF b = <<>> THEN FALSE
    ELSE IF a = <<>> THEN TRUE
    ELSE IF Head(a) = Head(b) THEN StrLess(Tail(a), Tail(b))
    ELSE Ord(Head(a)) < Ord(Head(b))

\* sorted(series_set)
RECURSIVE Sorted(_)
Sorted(S) ==
    IF S = {} THEN <<>>
    ELSE LET m == CHOOSE x \in S : \A y \in S \ {x} : StrLess(x, y)
         IN  <<m>> \o Sorted(S \ {m})

\* the cards of the tracked view by position: card i of sorted(series_set) is
\* added at row i // columns, column i % columns
TrackedLayout(cards) == Sorted(cards)

\* a step that changes the tracked list or the tracked view
C24_Rebuilt == tracked_anime' # tracked_anime \/ tracked_cards' # tracked_cards

\* a comes before b in lexicographic order: at the first position where they
\* differ a has ended or holds the smaller character
C24_Before(a, b) ==
    \E k \in 1..Len(b) :
        /\ \A j \in 1..(k - 1) : j <= Len(a) /\ a[j] = b[j]
        /\ k > Len(a) \/ Ord(a[k]) < Ord(b[k])

\* the view cards holds a card for a name exactly if an entry of tracked or
\* an '.mkv' file of files derives to the name, in lexicographic order
C24_ViewListsUnion(tracked, files, cards) ==
    LET layout == TrackedLayout(cards)
    IN  /\ \A i \in 1..Len(tracked) : SeriesName(tracked[i]) \in cards
        /\ \A file \in files : IsMkv(file) => SeriesName(file) \in cards
        /\ \A name \in cards :
              \/ \E i \in 1..Len(tracked) : SeriesName(tracked[i]) = name
              \/ \E file \in files : IsMkv(file) /\ SeriesName(file) = name
        /\ Len(layout) = Cardinality(cards)
        /\ {layout[i] : i \in 1..Len(layout)} = cards
        /\ \A i \in 1..Len(layout) : \A j \in 1..Len(layout) :
              i < j => C24_Before(layout[i], layout[j])

\* the series untracked last is listed if one of its files is left
C24_StillListed(untracked, files, cards) ==
    untracked.name = "untrack"
        => \A file \in files :
              (IsMkv(file) /\ SeriesName(file) = untracked.title)
                  => untracked.title \in cards

MaxFiles == 3

\* s.split(p): the pieces of s between the occurrences of p, left to right
RECURSIVE Split(_, _)
Split(s, p) ==
    LET idx == {i \in 1..Len(s) : MatchAt(s, p, i)}
    IN  IF idx = {} THEN <<s>>
        ELSE <<SubSeq(s, 1, Min(idx) - 1)>>
             \o Split(SubSeq(s, Min(idx) + Len(p), Len(s)), p)

\* the label "None"
NoneLabel == <<"N", "o", "n", "e">>

\* file.split(" - ")[1] raises IndexError
ScanRaises(file) == Len(Split(file, Dash)) < 2

\* file.split(" - ")[1].split("[")[0].strip()
ScanLabel(file) == Strip(SplitFirst(Split(file, Dash)[2], <<"[">>))

\* file.endswith(".mkv") and self.series_name in file
ScanMatches(series_name, file) == IsMkv(file) /\ Contains(series_name, file)

\* for file in downloaded_files: ... latest_episode = episode / except: pass
RECURSIVE Scan(_, _, _)
Scan(files, series_name, latest_episode_so_far) ==
    IF files = <<>> THEN latest_episode_so_far
    ELSE IF ScanMatches(series_name, Head(files)) /\ ~ScanRaises(Head(files))
         THEN Scan(Tail(files), series_name, ScanLabel(Head(files)))
         ELSE Scan(Tail(files), series_name, latest_episode_so_far)

\* the files of the download folder: two episodes of series "A", a file of
\* "A" without a separator, an episode of "B", and a file that is no '.mkv'
EpisodeFiles ==
    { <<"A", " ", "-", " ", "1", " ", "[", "x", "]", ".", "m", "k", "v">>,
      <<"A", " ", "-", " ", "2", " ", "[", "x", "]", ".", "m", "k", "v">>,
      <<"A", ".", "m", "k", "v">>,
      <<"B", " ", "-", " ", "1", ".", "m", "k", "v">>,
      <<"A", " ", "-", " ", "3", ".", "t", "x", "t">> }

\* the series of the tracked cards
EpisodeSeries == {<<"A">>, <<"B">>, <<"C">>}

EpisodeInit ==
    /\ downloaded_files = <<>>
    /\ latest_episode = <<>>
    /\ episode_op = NoScan
    /\ episode_labels = [site \in LabelSites |-> NoEpisodeLabel]
    /\ TitleIdle
    /\ LimiterIdle
    /\ FetchIdle
    /\ TrackIdle
    /\ CountdownIdle
    /\ DownloadIdle
    /\ SettingsIdle
    /\ LookupIdle
    /\ EndpointIdle
    /\ MainIdle
    /\ RefreshIdle
    /\ ReconnectIdle

\* a file is written to the download folder: get_downloaded_files sorts by
\* modification time, newest first
FileDownloaded(file) ==
    /\ Len(downloaded_files) < MaxFiles
    /\ \A i \in 1..Len(downloaded_files) : downloaded_files[i] # file
    /\ downloaded_files' = <<file>> \o downloaded_files
    /\ UNCHANGED <<latest_episode, episode_op, episode_labels, exceptEpisode>>

\* TrackedAnimeCard.get_last_episode of the card of series_name
GetLastEpisode(series_name) ==
    /\ latest_episode' = Scan(downloaded_files, series_name, NoneLabel)
    /\ episode_op' = [name |-> "get_last_episode", series |-> series_name,
                      files |-> downloaded_files]
    /\ UNCHANGED <<downloaded_files, episode_labels, exceptEpisode>>

EpisodeNext ==
    \/ \E file \in EpisodeFiles : FileDownloaded(file)
    \/ \E series_name \in EpisodeSeries : GetLastEpisode(series_name)

EpisodeSpec == EpisodeInit /\ [][EpisodeNext]_vars

\* the positions of the files of the last scan that match its series and
\* yield a label
C25_Yielding ==
    {i \in 1..Len(episode_op.files) :
        /\ ScanMatches(episode_op.series, episode_op.files[i])
        /\ ~ScanRaises(episode_op.files[i])}

(***************************************************************************)
(* C25: the latest-episode label is the label of the most recently         *)
(* modified matching file that yields a label, and 'None' when no file     *)
(* yields one.                                                             *)
(***************************************************************************)
C25_LatestIsNewest ==
    episode_op.name = "get_last_episode"
        => latest_episode = IF C25_Yielding = {} THEN NoneLabel
                            ELSE ScanLabel(episode_op.files[Min(C25_Yielding)])

(***************************************************************************)
(* The episode label, as each place derives it from a raw title or file    *)
(* name.                                                                   *)
(***************************************************************************)
\* s.split(p)[-1]
SplitLast(s, p) == LET pieces == Split(s, p) IN pieces[Len(pieces)]

\* AnimeCard.setup_front and DownloadCard.setup_front:
\* title.split(" - ")[-1].split("[")[0].strip()
CardLabel(title) == Strip(SplitFirst(SplitLast(title, Dash), <<"[">>))

\* a derived label
Derived(label) == [done |-> TRUE, raised |-> FALSE, label |-> label]

\* a derivation that raised
DerivationRaised == [done |-> TRUE, raised |-> TRUE, label |-> <<>>]

LabelInit ==
    /\ raw \in Titles
    /\ derived = <<>>
    /\ op = "off"
    /\ episode_labels = [site \in LabelSites |-> NoEpisodeLabel]
    /\ downloaded_files = <<>>
    /\ latest_episode = <<>>
    /\ episode_op = NoScan
    /\ LimiterIdle
    /\ FetchIdle
    /\ TrackIdle
    /\ CountdownIdle
    /\ DownloadIdle
    /\ SettingsIdle
    /\ LookupIdle
    /\ EndpointIdle
    /\ MainIdle
    /\ RefreshIdle
    /\ ReconnectIdle

\* AnimeCard.setup_front: the episode label of a feed card
AnimeCardLabel ==
    /\ ~episode_labels["anime_card"].done
    /\ episode_labels' = [episode_labels EXCEPT !["anime_card"] = Derived(CardLabel(raw))]
    /\ UNCHANGED <<downloaded_files, latest_episode, episode_op, exceptEpisode>>

\* DownloadCard.setup_front: the episode label of a download card
DownloadCardLabel ==
    /\ ~episode_labels["download_card"].done
    /\ episode_labels' = [episode_labels EXCEPT !["download_card"] = Derived(CardLabel(raw))]
    /\ UNCHANGED <<downloaded_files, latest_episode, episode_op, exceptEpisode>>

\* get_last_episode's try block on one file name
LastEpisodeLabel ==
    /\ ~episode_labels["get_last_episode"].done
    /\ episode_labels' = [episode_labels EXCEPT !["get_last_episode"] =
                             IF ScanRaises(raw) THEN DerivationRaised
                             ELSE Derived(ScanLabel(raw))]
    /\ UNCHANGED <<downloaded_files, latest_episode, episode_op, exceptEpisode>>

LabelNext == AnimeCardLabel \/ DownloadCardLabel \/ LastEpisodeLabel

LabelSpec == LabelInit /\ [][LabelNext]_vars

\* s without a trailing "[...]" segment, trimmed
C26_WithoutTrailingBracket(s) ==
    LET t == Strip(s)
        open == {i \in 1..Len(t) : t[i] = "["}
    IN  IF t # <<>> /\ t[Len(t)] = "]" /\ open # {}
        THEN Strip(SubSeq(t, 1, Max(open) - 1))
        ELSE t

\* the episode label as stated: the text after the last " - ", without a
\* trailing "[...]" segment, trimmed; the whole title without the release
\* group's tag when there is no " - "
C26_EpisodeLabel(title) ==
    LET idx == {i \in 1..Len(title) : MatchAt(title, Dash, i)}
    IN  IF idx = {} THEN Strip(Remove(title, Tag))
        ELSE C26_WithoutTrailingBracket(SubSeq(title, Max(idx) + Len(Dash), Len(title)))

(***************************************************************************)
(* C26: every place that derives an episode label from a raw title yields, *)
(* without raising, the text after the title's last " - " without a        *)
(* trailing "[...]" segment, trimmed, and the whole cleaned title when the *)
(* title has no " - ".                                                     *)
(***************************************************************************)
C26_SameLabelEverywhere ==
    \A site \in LabelSites :
        episode_labels[site].done
            => /\ ~episode_labels[site].raised
               /\ episode_labels[site].label = C26_EpisodeLabel(raw)

\* the part that holds: the two cards derive the same label and never raise
LabelsAsCoded ==
    /\ ~episode_labels["anime_card"].raised /\ ~episode_labels["download_card"].raised
    /\ (episode_labels["anime_card"].done /\ episode_labels["download_card"].done)
          => episode_labels["anime_card"].label = episode_labels["download_card"].label

(***************************************************************************)
(* C27: the persisted tracked list round-trips: after every track or       *)
(* untrack the list load_tracked_anime reads back from the file that       *)
(* save_tracked_anime wrote equals the list in memory.                     *)
(***************************************************************************)
C27_TrackedListRoundTrips ==
    last_op.name # "none" => LoadTrackedAnime(tracked_file) = tracked_anime

(***************************************************************************)
(* C28: on every date, with a schedule at hand that holds a matching show  *)
(* with a valid weekday and time, update_countdown shows a "Next episode   *)
(* in" countdown; "Schedule unavailable" is shown only when no schedule    *)
(* could be fetched.                                                       *)
(***************************************************************************)
C28_CountdownOnEveryDate ==
    /\ (schedule_data.ok /\ CardShows # {})
          => countdown_label.text = "Next episode in: "
    /\ countdown_label = Unavailable => ~schedule_data.ok

\* the series names of the titles the feed offers
C29_SeriesNames == {SeriesName(title) : title \in ClickTitles}

(***************************************************************************)
(* C29: an untrack of series X leaves the tracked status of every other    *)
(* series name Y as it was: some entry of the list contains Y after the    *)
(* untrack exactly if some entry contained Y before it.                    *)
(***************************************************************************)
C29_UntrackChangesOnlyX ==
    WasUntrack =>
        \A Y \in C29_SeriesNames \ {UntrackedName} :
            IsTracked(Y, tracked_anime) = IsTracked(Y, before.list)

(***************************************************************************)
(* C30: a save of the settings form attempts a reconnect to the download   *)
(* client exactly when the client's settings it stores differ from the     *)
(* ones held before the save.                                              *)
(***************************************************************************)
C30_ReconnectOnChange ==
    reconnect_op.name = "save_settings"
        => (reconnect_op.tried <=> reconnect_op.changed)

\* what the code does: a save of the form never attempts a reconnect
ReconnectAsCoded == ~reconnect_op.tried

====
